---- MODULE Spec2Model ----
(***************************************************************************)
(* Mask generation of data-model-masking-vscode.                           *)
(*                                                                         *)
(* processSchema exists in two strategies: the multi-file one              *)
(* (src/src/processor.ts, second half) that writes one masked file per     *)
(* original document, and the single-file one (src/unnamed/part_006) that  *)
(* embeds referenced documents under `definitions`.  The recursion of      *)
(* processSchema is modelled with an explicit call stack: one frame per    *)
(* invocation, one action per section of the function body.                *)
(*                                                                         *)
(* Strings that the code takes apart (file names, paths, $ref values) are  *)
(* sequences of one-character strings; a path is a sequence of segments.   *)
(***************************************************************************)
EXTENDS Integers, Sequences, FiniteSets, TLC

VARIABLES
    mode,       \* "multi" (processor.ts) or "single" (part_006)
    world,      \* which file system the run works on
    rootSel,    \* rootSelection.selection of the payload
    request,    \* the other fields of the payload: mainSchemaId, maskSuffix
    phase,      \* position of generateMask: "init", "run", "processed", "done", "rejected", "failed"
    stack,      \* call stack of processSchema, innermost frame last
    retval,     \* value returned by the call that returned last
    cache,      \* processedCache: path -> entry
    defAcc,     \* definitionsAccumulator: key -> schema
    defMap,     \* definitionsBaseNameMap: path -> key
    written,    \* files on disk written by this run: path -> content
    messages,   \* what the run has shown to the user
    panel,      \* extension host: the editor panel and the messages in flight
    webview,    \* webview: the state of the App component
    resolution, \* webview: one call of resolveRefUri, its arguments and result
    loader,     \* extension host: one call of generatePayload, its files and result
    toggle,     \* webview: the selection under the check boxes and the last toggle
    combine,    \* webview: one call of getCombinedProperties and the calls below it
    entered,    \* history: path -> number of times the document's body was entered
    loaded,     \* history: paths handed to loadSchemaFile
    refLog,     \* history: one record per handled $ref node
    nodeLog     \* history: one record per processSchema call that returned

vars == << mode, world, rootSel, request, phase, stack, retval, cache, defAcc, defMap,
           written, messages, panel, webview, resolution, loader, toggle, combine, entered,
           loaded, refLog, nodeLog >>

(***************************************************************************)
(* Bounds                                                                  *)
(***************************************************************************)
MaxDepth == 12

(***************************************************************************)
(* Generic helpers                                                         *)
(***************************************************************************)
EmptyObj == [x \in {} |-> x]

Keys(o) == DOMAIN o

NKeys(o) == Cardinality(DOMAIN o)

Put(o, k, v) == [x \in (DOMAIN o) \cup {k} |-> IF x = k THEN v ELSE o[x]]

Del(o, k) == [x \in (DOMAIN o) \ {k} |-> o[x]]

Range(s) == {s[i] : i \in DOMAIN s}

Last(s) == s[Len(s)]

Front(s) == SubSeq(s, 1, Len(s) - 1)

EndsWith(s, t) ==
    /\ Len(t) <= Len(s)
    /\ SubSeq(s, Len(s) - Len(t) + 1, Len(s)) = t

(***************************************************************************)
(* node:path on POSIX.  Absolute paths are sequences of segments below     *)
(* the root; relative paths are sequences of segments that may start with  *)
(* "." or "..".                                                            *)
(***************************************************************************)
Dot == <<".">>

DotDot == <<".", ".">>

RECURSIVE NormalizeRel(_, _)
NormalizeRel(segs, acc) ==
    IF segs = <<>> THEN acc
    ELSE LET s == Head(segs) IN
         IF s = <<>> \/ s = Dot THEN NormalizeRel(Tail(segs), acc)
         ELSE IF s = DotDot
              THEN IF acc = <<>> \/ Last(acc) = DotDot
                   THEN NormalizeRel(Tail(segs), Append(acc, DotDot))
                   ELSE NormalizeRel(Tail(segs), Front(acc))
              ELSE NormalizeRel(Tail(segs), Append(acc, s))

RECURSIVE NormalizeAbs(_, _)
NormalizeAbs(segs, acc) ==
    IF segs = <<>> THEN acc
    ELSE LET s == Head(segs) IN
         IF s = <<>> \/ s = Dot THEN NormalizeAbs(Tail(segs), acc)
         ELSE IF s = DotDot
              THEN IF acc = <<>>
                   THEN NormalizeAbs(Tail(segs), acc)
                   ELSE NormalizeAbs(Tail(segs), Front(acc))
              ELSE NormalizeAbs(Tail(segs), Append(acc, s))

\* path.resolve(absDir, rel)
PathResolve(absDir, rel) == NormalizeAbs(absDir \o rel, <<>>)

\* path.join(a, b) of two relative paths; an empty result is "."
PathJoinRel(a, b) ==
    LET n == NormalizeRel(a \o b, <<>>) IN IF n = <<>> THEN <<Dot>> ELSE n

\* path.join(absDir, rel)
PathJoinAbs(absDir, rel) == NormalizeAbs(absDir \o rel, <<>>)

\* path.dirname of an absolute path
DirnameAbs(p) == IF p = <<>> THEN <<>> ELSE Front(p)

\* path.dirname of a relative path: "." when there is no directory part
DirnameRel(p) == IF Len(p) <= 1 THEN <<Dot>> ELSE Front(p)

RECURSIVE CommonPrefixLen(_, _)
CommonPrefixLen(a, b) ==
    IF a = <<>> \/ b = <<>> THEN 0
    ELSE IF Head(a) = Head(b) THEN 1 + CommonPrefixLen(Tail(a), Tail(b))
    ELSE 0

\* path.relative(from, to) of two absolute paths
PathRelative(from, to) ==
    LET k == CommonPrefixLen(from, to) IN
    [i \in 1..(Len(from) - k) |-> DotDot] \o SubSeq(to, k + 1, Len(to))

\* index of the last "." of a file name, 0 when there is none
LastDot(name) ==
    LET idx == {i \in DOMAIN name : name[i] = "."} IN
    IF idx = {} THEN 0 ELSE CHOOSE i \in idx : \A j \in idx : j <= i

\* path.extname of a file name: from the last "." on, "" for a leading dot
Extname(name) ==
    IF name = DotDot \/ LastDot(name) <= 1 THEN <<>>
    ELSE SubSeq(name, LastDot(name), Len(name))

\* path.basename(name, ext) of a file name
Basename(name, ext) ==
    IF ext # <<>> /\ EndsWith(name, ext) /\ name # ext
    THEN SubSeq(name, 1, Len(name) - Len(ext))
    ELSE name

\* String.prototype.startsWith on a path string given as segments
StartsWithChar(p, c) == p # <<>> /\ p[1] # <<>> /\ p[1][1] = c

(***************************************************************************)
(* JSON values of the original schemas.  A schema node is a function from  *)
(* keyword to value; `properties` is the sequence of its entries in        *)
(* declaration order; every other keyword value is a tagged JSON value.    *)
(***************************************************************************)
JStr(s) == [jt |-> "string", v |-> s]

JEmptyObject == [jt |-> "object", n |-> 0]

JTuple(n) == [jt |-> "array", n |-> n]

Prop(k, v) == [k |-> k, v |-> v]

Ref(r) == [x \in {"$ref"} |-> r]

\* typeof v === 'object' && v !== null && !Array.isArray(v) && Object.keys(v).length === 0
IsEmptyObjectValue(v) == v.jt = "object" /\ v.n = 0

PropNames(node) ==
    IF "properties" \in DOMAIN node
    THEN {node["properties"][i].k : i \in DOMAIN node["properties"]}
    ELSE {}

(***************************************************************************)
(* Selection values (src/unnamed/part_007).  true, false and undefined     *)
(* are tagged; a SelectionDetail carries its keys in d.                    *)
(***************************************************************************)
SelTrue == [t |-> "true"]

SelFalse == [t |-> "false"]

SelUndef == [t |-> "undef"]

Detail(d) == [t |-> "detail", d |-> d]

Props(f) == [x \in {"properties"} |-> f]

Items(s) == [x \in {"items"} |-> s]

RTS(s) == [x \in {"$refTargetSelection"} |-> s]

\* JavaScript truthiness of a selection value
Truthy(sel) == sel.t \in {"true", "detail"}

\* a property that the Detail does not name counts as selected
PropSelection_DefaultTrue(sel, p) ==
    IF sel.t = "true" THEN SelTrue
    ELSE IF "properties" \in DOMAIN sel.d /\ p \in DOMAIN sel.d["properties"]
         THEN sel.d["properties"][p]
         ELSE SelTrue

\* selection === true ? true : selection.properties?.[propKey]
PropSelection(sel, p) ==
    IF sel.t = "true" THEN SelTrue
    ELSE IF "properties" \in DOMAIN sel.d /\ p \in DOMAIN sel.d["properties"]
         THEN sel.d["properties"][p]
         ELSE SelUndef

\* selection === true || selection?.properties
PropsGate(sel) == sel.t = "true" \/ "properties" \in DOMAIN sel.d

\* selection === true ? true : selection.items
ItemsSelection(sel) ==
    IF sel.t = "true" THEN SelTrue
    ELSE IF "items" \in DOMAIN sel.d THEN sel.d["items"] ELSE SelUndef

\* selection === true || selection?.items
ItemsGate(sel) == sel.t = "true" \/ Truthy(ItemsSelection(sel))

\* the target is always processed whole
RefSelection_True(sel) == SelTrue

\* (selection !== true && selection?.$refTargetSelection) ? selection.$refTargetSelection : true
RefSelection(sel) ==
    IF /\ sel.t # "true"
       /\ "$refTargetSelection" \in DOMAIN sel.d
       /\ Truthy(sel.d["$refTargetSelection"])
    THEN sel.d["$refTargetSelection"]
    ELSE SelTrue

(***************************************************************************)
(* Results of processSchema: null, the processing marker, or a schema.     *)
(***************************************************************************)
Null == [k |-> "null"]

PROCESSING_MARKER == [k |-> "marker"]

Obj(o) == [k |-> "obj", o |-> o]

IsObj(r) == r.k = "obj"

\* result && result !== PROCESSING_MARKER
IsContent(r) == r.k = "obj"

\* result && result !== PROCESSING_MARKER && Object.keys(result).length > 0
IsNonEmptyContent(r) == r.k = "obj" /\ NKeys(r.o) > 0

(***************************************************************************)
(* Names                                                                   *)
(***************************************************************************)
DotJson == <<".", "j", "s", "o", "n">>

InDir == <<"i", "n">>

OutDir == <<"o", "u", "t">>

SubDir == <<"s", "u", "b">>

PetJson == <<"P", "e", "t">> \o DotJson

OwnerJson == <<"O", "w", "n", "e", "r">> \o DotJson

AJson == <<"A">> \o DotJson

BJson == <<"B">> \o DotJson

MainJson == <<"M", "a", "i", "n">> \o DotJson

AddrJson == <<"A", "d", "d", "r">> \o DotJson

MissingJson == <<"M", "i", "s", "s">> \o DotJson

RootJson == <<"R", "o", "o", "t">> \o DotJson

ItemJson == <<"I", "t", "e", "m">> \o DotJson

CompJson == <<"C", "o", "m", "p">> \o DotJson

BaseJson == <<"B", "a", "s", "e">> \o DotJson

\* "#/definitions/loc"
FragmentRef == << <<"#">>, <<"d", "e", "f", "i", "n", "i", "t", "i", "o", "n", "s">>, <<"l", "o", "c">> >>

baseOutputDir == request.outputDir

\* extension.ts: export const MASK_SUFFIX = '.m1'
MASK_SUFFIX == <<".", "m", "1">>

(***************************************************************************)
(* File systems.  World 1 is the Pet/Owner pair, world 2 two documents     *)
(* whose roots reference each other, world 3 a main document with a        *)
(* twice-referenced document in a sub directory, a fragment reference, a   *)
(* reference to a missing file next to inline properties, and composition, *)
(* world 4 a document composed of a referenced base document and inline    *)
(* branches.                                                               *)
(***************************************************************************)
Worlds == {1, 2, 3, 4, 5}

StringNode == [type |-> JStr("string")]

PetSchema ==
    [type |-> JStr("object"),
     properties |-> << Prop("name", StringNode),
                       Prop("owner", Ref(<<Dot, OwnerJson>>)) >>,
     required |-> <<"name", "owner">>]

OwnerSchema ==
    [type |-> JStr("object"),
     properties |-> << Prop("id", StringNode),
                       Prop("pets", [type |-> JStr("array"),
                                     items |-> Ref(<<Dot, PetJson>>)]) >>,
     required |-> <<"id">>]

ASchema == [title |-> JStr("A")] @@ Ref(<<Dot, BJson>>)

BSchema == Ref(<<Dot, AJson>>)

AddrSchema ==
    [type |-> JStr("object"),
     properties |-> << Prop("street", StringNode),
                       Prop("zip", StringNode),
                       Prop("back", Ref(<<DotDot, MainJson>>)),
                       Prop("me", Ref(<<Dot, AddrJson>>)) >>,
     required |-> <<"zip">>]

MainSchema ==
    [type |-> JStr("object"),
     title |-> JStr("Main"),
     default |-> JEmptyObject,
     properties |-> << Prop("home", Ref(<<Dot, SubDir, AddrJson>>)),
                       Prop("work", [title |-> JStr("work")] @@ Ref(<<Dot, SubDir, AddrJson>>)),
                       Prop("loc", Ref(FragmentRef)),
                       Prop("gone", [type |-> JStr("object"),
                                     properties |-> << Prop("k", StringNode) >>,
                                     required |-> <<"k">>]
                                    @@ Ref(<<Dot, MissingJson>>)),
                       Prop("tags", [type |-> JStr("array"), items |-> StringNode]),
                       Prop("pair", [type |-> JStr("array"), items |-> JTuple(2)]) >>,
     required |-> <<"home", "gone", "ghost">>,
     allOf |-> << [properties |-> << Prop("x", StringNode) >>],
                  [properties |-> << Prop("y", StringNode) >>] >>]

BaseSchema ==
    [type |-> JStr("object"),
     properties |-> << Prop("a", StringNode), Prop("b", StringNode) >>,
     required |-> <<"a">>]

CompSchema ==
    [type |-> JStr("object"),
     properties |-> << Prop("own", StringNode) >>,
     allOf |-> << Ref(<<Dot, BaseJson>>),
                  [properties |-> << Prop("y", StringNode) >>] >>,
     anyOf |-> << [properties |-> << Prop("z", StringNode) >>],
                  [title |-> JStr("any"),
                   properties |-> << Prop("y", StringNode), Prop("z", StringNode) >>] >>]

\* a main document below the directory of one of its targets, and two targets
\* with the same file name
RootSchema ==
    [type |-> JStr("object"),
     properties |-> << Prop("a", Ref(<<Dot, ItemJson>>)),
                       Prop("b", Ref(<<DotDot, ItemJson>>)) >>]

SubItemSchema ==
    [type |-> JStr("object"),
     title |-> JStr("sub"),
     properties |-> << Prop("n", StringNode) >>]

TopItemSchema == [type |-> JStr("string"), title |-> JStr("top")]

FS(w) ==
    CASE w = 1 -> (<<InDir, PetJson>> :> PetSchema) @@ (<<InDir, OwnerJson>> :> OwnerSchema)
      [] w = 2 -> (<<InDir, AJson>> :> ASchema) @@ (<<InDir, BJson>> :> BSchema)
      [] w = 3 -> (<<InDir, MainJson>> :> MainSchema) @@ (<<InDir, SubDir, AddrJson>> :> AddrSchema)
      [] w = 4 -> (<<InDir, CompJson>> :> CompSchema) @@ (<<InDir, BaseJson>> :> BaseSchema)
      [] w = 5 -> (<<InDir, SubDir, RootJson>> :> RootSchema)
                     @@ (<<InDir, SubDir, ItemJson>> :> SubItemSchema)
                     @@ (<<InDir, ItemJson>> :> TopItemSchema)

MainPath(w) ==
    CASE w = 1 -> <<InDir, PetJson>>
      [] w = 2 -> <<InDir, AJson>>
      [] w = 3 -> <<InDir, MainJson>>
      [] w = 4 -> <<InDir, CompJson>>
      [] w = 5 -> <<InDir, SubDir, RootJson>>

\* processor.ts 726, part_006 414: path.dirname(mainSchemaOriginalPath)
baseInputDir == DirnameAbs(MainPath(world))

\* every path a run can name: the files and the targets of their references
Paths(w) ==
    (DOMAIN FS(w))
    \cup (IF w = 3 THEN { <<InDir, MissingJson>>, <<InDir>> \o FragmentRef } ELSE {})

\* fs.existsSync
Exists(w, p) == p \in DOMAIN FS(w)

\* a function from the names in ks that the chooser f gives a value
Pick(ks, f) == [k \in {k \in ks : f[k] # SelUndef} |-> f[k]]

OwnerChoices ==
    { SelUndef, SelTrue,
      Detail(RTS(Detail(Props([id |-> SelTrue])))),
      Detail(RTS(Detail(Props([id |-> SelTrue, pets |-> SelTrue])))),
      Detail(RTS(Detail(Props([pets |-> Detail(Items(SelTrue))])))),
      Detail(RTS(Detail(Props([zzz |-> SelTrue])))),
      Detail(RTS(SelFalse)),
      Detail(RTS(SelTrue)) }

HomeChoices ==
    { SelUndef, SelTrue,
      Detail(RTS(Detail(Props([zip |-> SelTrue])))),
      Detail(RTS(Detail(Props([back |-> SelTrue, me |-> SelTrue])))),
      Detail(RTS(SelFalse)) }

WorkChoices ==
    { SelUndef, SelTrue, Detail(RTS(Detail(Props([street |-> SelTrue])))) }

GoneChoices ==
    { SelUndef, SelTrue, Detail(Props([k |-> SelTrue])),
      Detail(Props([k |-> SelTrue]) @@ RTS(SelFalse)),
      Detail(Props([zz |-> SelTrue])) }

OnOff == { SelUndef, SelTrue }

Selections(w) ==
    CASE w = 1 ->
            { SelTrue, SelFalse, SelUndef, Detail(EmptyObj) }
            \cup { Detail(Props(Pick({"name", "owner", "bogus"},
                                     [name |-> n, owner |-> o, bogus |-> b]))) :
                     n \in OnOff, o \in OwnerChoices, b \in OnOff }
      [] w = 2 ->
            { SelTrue, SelFalse, Detail(EmptyObj), Detail(RTS(SelTrue)), Detail(RTS(SelFalse)),
              Detail(RTS(Detail(RTS(SelFalse)))), Detail(RTS(Detail(EmptyObj))) }
      [] w = 3 ->
            { SelTrue }
            \cup { Detail(Props(Pick({"home", "work", "loc", "gone", "tags", "x"},
                                     [home |-> h, work |-> k, loc |-> l, gone |-> g,
                                      tags |-> t, x |-> x]))) :
                     h \in HomeChoices, k \in WorkChoices, l \in OnOff,
                     g \in GoneChoices, t \in { SelUndef, Detail(Items(SelTrue)) }, x \in OnOff }
      [] w = 4 ->
            { SelTrue, Detail(EmptyObj),
              Detail(Props([a |-> SelTrue]) @@ RTS(Detail(Props([a |-> SelTrue])))),
              Detail(Props([y |-> SelTrue]) @@ RTS(Detail(Props([b |-> SelTrue])))) }
            \cup { Detail(Props(Pick({"own", "a", "y", "z"},
                                     [own |-> o, a |-> a, y |-> y, z |-> z]))) :
                     o \in OnOff, a \in OnOff, y \in OnOff, z \in OnOff }
      [] w = 5 ->
            { SelTrue }
            \cup { Detail(Props(Pick({"a", "b"}, [a |-> a, b |-> b]))) :
                     a \in OnOff \cup { Detail(RTS(Detail(Props([n |-> SelTrue])))) },
                     b \in OnOff }

(***************************************************************************)
(* utils.ts                                                                *)
(***************************************************************************)
\* resolveRefPath: path.resolve(path.dirname(currentSchemaPath), ref)
resolveRefPath(ref, currentSchemaPath) == PathResolve(DirnameAbs(currentSchemaPath), ref)

\* getOutputPath: path.join(baseOutputDir, path.relative(baseInputDir, original))
getOutputPath(originalAbsolutePath) ==
    PathJoinAbs(baseOutputDir, PathRelative(baseInputDir, originalAbsolutePath))

\* writeSchemaFile: the path the schema is written to
writeSchemaFile(filePath, maskSuffix) ==
    LET dir == DirnameAbs(filePath)
        ext == Extname(Last(filePath))
        baseName == Basename(Last(filePath), ext)
    IN  PathJoinAbs(dir, << baseName \o maskSuffix \o ext >>)

(***************************************************************************)
(* Call frames of processSchema                                            *)
(***************************************************************************)
NewFrame(node, sel, doc, top) ==
    [node |-> node, sel |-> sel, doc |-> doc, top |-> top, pc |-> "enter",
     out |-> EmptyObj, hsc |-> FALSE,
     i |-> 1, oprops |-> EmptyObj, oreq |-> <<>>, hsp |-> FALSE,
     kw |-> 1, olist |-> <<>>,
     refAbs |-> <<>>, refSel |-> SelUndef,
     called |-> {}, ok |-> {}, sub |-> FALSE, brs |-> EmptyObj]

Top == stack[Len(stack)]

Running == phase \in {"run", "call"} /\ stack # <<>>

At(m, pc) == Running /\ mode = m /\ Top.pc = pc

Count(p) == IF p \in DOMAIN entered THEN entered[p] ELSE 0

\* the frame on top continues at its next section
Goto(f) == stack' = [stack EXCEPT ![Len(stack)] = f]

\* the frame on top calls processSchema recursively and waits for it
Call(f, callee) ==
    /\ Len(stack) < MaxDepth
    /\ stack' = Append([stack EXCEPT ![Len(stack)] = f], callee)

\* the frame on top returns r to its caller
Return(f, r, body) ==
    /\ stack' = Front(stack)
    /\ retval' = r
    /\ nodeLog' = nodeLog \cup
          { [doc |-> f.doc, node |-> f.node, sel |-> f.sel, top |-> f.top, body |-> body,
             result |-> r, called |-> f.called, ok |-> f.ok, sub |-> f.sub,
             brs |-> f.brs, draft |-> f.out] }
    /\ phase' = IF Len(stack) > 1 THEN phase
                ELSE IF phase = "run" THEN "processed" ELSE "returned"

Structural == {"properties", "items", "$ref", "required", "definitions",
               "allOf", "anyOf", "oneOf", "not"}

IsType(o, t) == "type" \in DOMAIN o /\ o["type"] = JStr(t)

(***************************************************************************)
(* processSchema, multi-file strategy (src/src/processor.ts 429-695)       *)
(***************************************************************************)
\* lines 473-482: basic keywords, an empty object value is not copied
MCopyBasic(node) ==
    [k \in {k \in DOMAIN node : k \notin Structural /\ ~IsEmptyObjectValue(node[k])} |-> node[k]]

\* lines 540-556: the $ref written for a target, relative to the current output file
MRefString(doc, refAbs) ==
    LET currentOutputSchemaPath == getOutputPath(doc)
        refOutputPath == getOutputPath(refAbs)
        rel == PathRelative(DirnameAbs(currentOutputSchemaPath), refOutputPath)
        refDir == DirnameRel(rel)
        refExt == Extname(Last(rel))
        refBaseName == Basename(Last(rel), refExt)
        maskedRefFileName == refBaseName \o <<"_", "m", "1">> \o refExt
        joined == PathJoinRel(refDir, <<maskedRefFileName>>)
    IN  IF ~StartsWithChar(joined, ".") THEN <<Dot>> \o joined ELSE joined

\* the cache is never found to hold the document
CacheHit_Never(c, doc) == FALSE

\* processor.ts 441-442, part_006 70-71: const cacheEntry = processedCache[path];
\* if (cacheEntry)
CacheHit(c, doc) == doc \in DOMAIN c

\* the entry is left as it is
StoreResult_Skip(c, doc, finalResult) == c

\* the result is stored over every sentinel of the cache
StoreResult_OverSentinels(c, doc, finalResult) ==
    [d \in DOMAIN c \cup {doc} |->
        IF d = doc THEN finalResult
        ELSE IF c[d] = PROCESSING_MARKER THEN finalResult ELSE c[d]]

\* processor.ts 684-685, part_006 369: processedCache[originalSchemaPath] = finalResult
StoreResult(c, doc, finalResult) == Put(c, doc, finalResult)

\* the sentinel is not placed
MMarkProcessing_Skip(c, doc) == c

\* line 451: processedCache[originalSchemaPath] = { outputSchema: PROCESSING_MARKER }
MMarkProcessing(c, doc) == Put(c, doc, PROCESSING_MARKER)

\* the $ref is added to the keywords copied before
MEmitRef_KeepBasic(out, refString) == Put(out, "$ref", refString)

\* lines 559-561: the copied basic keywords are cleared, only the $ref stays
MEmitRef(out, refString) == Ref(refString)

\* every selected property is pushed, whether the original requires it or not
RequiredPush_Always(oreq, node, k) == Append(oreq, k)

\* lines 611-614: if (originalSchema.required?.includes(propKey)) outputRequired.push(propKey)
RequiredPush(oreq, node, k) ==
    IF "required" \in DOMAIN node /\ k \in Range(node["required"])
    THEN Append(oreq, k) ELSE oreq

\* lines 440-487: cache check, marker, falsy selection, basic keywords
MEnter ==
    /\ At("multi", "enter")
    /\ LET f == Top IN
       IF f.top /\ CacheHit(cache, f.doc)
       THEN /\ Return(f, cache[f.doc], FALSE)
            /\ UNCHANGED << cache, entered >>
       ELSE IF ~Truthy(f.sel)
       THEN /\ cache' = IF f.top THEN Del(cache, f.doc) ELSE cache
            /\ Return(f, Null, FALSE)
            /\ UNCHANGED entered
       ELSE /\ cache' = IF f.top THEN MMarkProcessing(cache, f.doc) ELSE cache
            /\ entered' = IF f.top THEN Put(entered, f.doc, Count(f.doc) + 1) ELSE entered
            /\ LET out == MCopyBasic(f.node) IN
               Goto([f EXCEPT !.pc = "ref", !.out = out,
                              !.hsc = (f.sel.t = "true" /\ NKeys(out) > 0)])
            /\ UNCHANGED << retval, nodeLog, phase >>
    /\ UNCHANGED << mode, world, combine, toggle, resolution, loader, rootSel, request, messages, panel, webview, defAcc, defMap, written, loaded, refLog >>

\* lines 491-536: target selection, cache lookup, load and recursive call
MRef ==
    /\ At("multi", "ref")
    /\ LET f == Top IN
       IF "$ref" \notin DOMAIN f.node
       THEN /\ Goto([f EXCEPT !.pc = "props"])
            /\ UNCHANGED << retval, loaded, refLog >>
       ELSE LET refAbsolutePath == resolveRefPath(f.node["$ref"], f.doc)
                refSelection == RefSelection(f.sel)
                g == [f EXCEPT !.refAbs = refAbsolutePath, !.refSel = refSelection]
            IN  IF ~Truthy(refSelection)
                THEN /\ Goto([g EXCEPT !.pc = "props", !.hsc = f.hsc \/ NKeys(f.out) > 0])
                     /\ refLog' = refLog \cup
                           { [doc |-> f.doc, node |-> f.node, sel |-> f.sel,
                              target |-> refAbsolutePath, emitted |-> FALSE,
                              ref |-> <<>>, got |-> "unselected"] }
                     /\ UNCHANGED << retval, loaded >>
                ELSE IF refAbsolutePath \in DOMAIN cache
                THEN /\ retval' = cache[refAbsolutePath]
                     /\ Goto([g EXCEPT !.pc = "refret"])
                     /\ UNCHANGED << loaded, refLog >>
                ELSE IF ~Exists(world, refAbsolutePath)
                THEN /\ retval' = Null
                     /\ loaded' = loaded \cup {refAbsolutePath}
                     /\ Goto([g EXCEPT !.pc = "refret"])
                     /\ UNCHANGED refLog
                ELSE /\ loaded' = loaded \cup {refAbsolutePath}
                     /\ Call([g EXCEPT !.pc = "refret"],
                             NewFrame(FS(world)[refAbsolutePath], refSelection,
                                      refAbsolutePath, TRUE))
                     /\ UNCHANGED << retval, refLog >>
    /\ UNCHANGED << mode, world, combine, toggle, resolution, loader, rootSel, request, messages, panel, webview, phase, cache, defAcc, defMap, written,
                    entered, nodeLog >>

\* a $ref is written whatever the target gave
MRefHasContent_Always(r) == TRUE

\* line 539: result === PROCESSING_MARKER || (result && Object.keys(result).length > 0)
MRefHasContent(r) == r = PROCESSING_MARKER \/ IsNonEmptyContent(r)

\* lines 538-577: the result of the target becomes a $ref or nothing
MRefReturn ==
    /\ At("multi", "refret")
    /\ LET f == Top
           r == retval
           emit == MRefHasContent(r)
           refString == MRefString(f.doc, f.refAbs)
       IN  /\ Goto(IF emit
                   THEN [f EXCEPT !.pc = "props", !.out = MEmitRef(f.out, refString), !.hsc = TRUE]
                   ELSE [f EXCEPT !.pc = "props", !.hsc = f.hsc \/ NKeys(f.out) > 0])
           /\ refLog' = refLog \cup
                 { [doc |-> f.doc, node |-> f.node, sel |-> f.sel, target |-> f.refAbs,
                    emitted |-> emit, ref |-> IF emit THEN refString ELSE <<>>,
                    got |-> r.k] }
    /\ UNCHANGED << mode, world, combine, toggle, resolution, loader, rootSel, request, messages, panel, webview, phase, retval, cache, defAcc, defMap, written,
                    entered, loaded, nodeLog >>

\* lines 627-637: the collected properties are put into the output
MPropsDone(f) ==
    IF f.hsp
    THEN LET o1 == IF "type" \notin DOMAIN f.out /\ IsType(f.node, "object")
                   THEN Put(f.out, "type", JStr("object")) ELSE f.out
             o2 == Put(o1, "properties", f.oprops)
             o3 == IF Len(f.oreq) > 0 THEN Put(o2, "required", f.oreq) ELSE o2
         IN  [f EXCEPT !.pc = "items", !.out = o3, !.hsc = TRUE]
    ELSE IF IsType(f.out, "object") /\ NKeys(f.out) = 1
         THEN [f EXCEPT !.pc = "items", !.out = Del(f.out, "type")]
         ELSE [f EXCEPT !.pc = "items"]

\* lines 580-606: the next declared property is looked up in the selection
MProps ==
    /\ At("multi", "props")
    /\ LET f == Top IN
       IF ~("$ref" \notin DOMAIN f.out /\ "properties" \in DOMAIN f.node /\ PropsGate(f.sel))
       THEN Goto([f EXCEPT !.pc = "items"])
       ELSE IF f.i > Len(f.node["properties"])
       THEN Goto(MPropsDone(f))
       ELSE LET p == f.node["properties"][f.i]
                propSelection == PropSelection(f.sel, p.k)
            IN  IF Truthy(propSelection)
                THEN Call([f EXCEPT !.pc = "propret", !.called = f.called \cup {p.k}],
                          NewFrame(p.v, propSelection, f.doc, FALSE))
                ELSE Goto([f EXCEPT !.i = f.i + 1])
    /\ UNCHANGED << mode, world, combine, toggle, resolution, loader, rootSel, request, messages, panel, webview, phase, retval, cache, defAcc, defMap, written,
                    entered, loaded, refLog, nodeLog >>

\* lines 608-620: the result of a property is collected
MPropReturn ==
    /\ At("multi", "propret")
    /\ LET f == Top
           p == f.node["properties"][f.i]
           r == retval
       IN  IF IsContent(r)
           THEN Goto([f EXCEPT !.pc = "props", !.i = f.i + 1,
                               !.oprops = Put(f.oprops, p.k, r.o), !.hsp = TRUE,
                               !.ok = f.ok \cup {p.k},
                               !.oreq = RequiredPush(f.oreq, f.node, p.k)])
           ELSE Goto([f EXCEPT !.pc = "props", !.i = f.i + 1])
    /\ UNCHANGED << mode, world, combine, toggle, resolution, loader, rootSel, request, messages, panel, webview, phase, retval, cache, defAcc, defMap, written,
                    entered, loaded, refLog, nodeLog >>

\* originalSchema.items && typeof items === 'object' && !Array.isArray(items)
HasItemsSchema(node) == "items" \in DOMAIN node /\ "jt" \notin DOMAIN node["items"]

\* lines 640-658: the items schema is processed when selected
MItems ==
    /\ At("multi", "items")
    /\ LET f == Top IN
       IF "$ref" \notin DOMAIN f.out /\ HasItemsSchema(f.node) /\ ItemsGate(f.sel)
          /\ Truthy(ItemsSelection(f.sel))
       THEN Call([f EXCEPT !.pc = "itemsret", !.sub = TRUE],
                 NewFrame(f.node["items"], ItemsSelection(f.sel), f.doc, FALSE))
       ELSE Goto([f EXCEPT !.pc = "fin"])
    /\ UNCHANGED << mode, world, combine, toggle, resolution, loader, rootSel, request, messages, panel, webview, phase, retval, cache, defAcc, defMap, written,
                    entered, loaded, refLog, nodeLog >>

\* lines 660-670: the result of the items schema is collected
MItemsReturn ==
    /\ At("multi", "itemsret")
    /\ LET f == Top
           r == retval
       IN  IF IsContent(r)
           THEN LET o1 == IF "type" \notin DOMAIN f.out /\ IsType(f.node, "array")
                          THEN Put(f.out, "type", JStr("array")) ELSE f.out
                IN  Goto([f EXCEPT !.pc = "fin", !.out = Put(o1, "items", r.o), !.hsc = TRUE])
           ELSE IF r # PROCESSING_MARKER /\ IsType(f.out, "array") /\ NKeys(f.out) = 1
           THEN Goto([f EXCEPT !.pc = "fin", !.out = Del(f.out, "type")])
           ELSE Goto([f EXCEPT !.pc = "fin"])
    /\ UNCHANGED << mode, world, combine, toggle, resolution, loader, rootSel, request, messages, panel, webview, phase, retval, cache, defAcc, defMap, written,
                    entered, loaded, refLog, nodeLog >>

\* lines 676-694: final result, cache update of a top-level call, return
MFinish ==
    /\ At("multi", "fin")
    /\ LET f == Top
           finalResult == IF f.hsc THEN Obj(f.out) ELSE Null
       IN  /\ cache' = IF f.top THEN StoreResult(cache, f.doc, finalResult) ELSE cache
           /\ Return(f, finalResult, TRUE)
    /\ UNCHANGED << mode, world, combine, toggle, resolution, loader, rootSel, request, messages, panel, webview, defAcc, defMap, written, entered, loaded, refLog >>

(***************************************************************************)
(* processSchema, single-file strategy (src/unnamed/part_006 54-376)       *)
(***************************************************************************)
WordChars ==
    { "a", "b", "c", "d", "e", "f", "g", "h", "i", "j", "k", "l", "m",
      "n", "o", "p", "q", "r", "s", "t", "u", "v", "w", "x", "y", "z",
      "A", "B", "C", "D", "E", "F", "G", "H", "I", "J", "K", "L", "M",
      "N", "O", "P", "Q", "R", "S", "T", "U", "V", "W", "X", "Y", "Z",
      "0", "1", "2", "3", "4", "5", "6", "7", "8", "9", "_" }

DEFINITIONS_PATH == <<"d", "e", "f", "i", "n", "i", "t", "i", "o", "n", "s">>

\* lines 31-37: "ref_" + base name with every non-word character replaced by "_"
generateDefinitionKey(absolutePath) ==
    LET baseName == Basename(Last(absolutePath), Extname(Last(absolutePath)))
        sanitized == [i \in DOMAIN baseName |->
                         IF baseName[i] \in WordChars THEN baseName[i] ELSE "_"]
    IN  <<"r", "e", "f", "_">> \o sanitized

\* `#/${DEFINITIONS_PATH}/${definitionKey}`
LocalRef(definitionKey) == << <<"#">>, DEFINITIONS_PATH, definitionKey >>

\* lines 222-228: every keyword that is not handled structurally is copied
SCopyBasic(node) == [k \in {k \in DOMAIN node : k \notin Structural} |-> node[k]]

\* a planned or embedded target is not recognised
SAlreadyPlanned_Never(map, path) == FALSE

\* line 123: definitionsBaseNameMap.has(refAbsolutePath)
SAlreadyPlanned(map, path) == path \in DOMAIN map

\* lines 67-104: cache check, marker, falsy selection
SEnter ==
    /\ At("single", "enter")
    /\ LET f == Top IN
       IF f.top /\ CacheHit(cache, f.doc)
       THEN /\ Return(f, cache[f.doc], FALSE)
            /\ UNCHANGED << cache, entered >>
       ELSE IF ~Truthy(f.sel)
       THEN /\ cache' = IF f.top THEN Put(cache, f.doc, Null) ELSE cache
            /\ Return(f, Null, FALSE)
            /\ UNCHANGED entered
       ELSE /\ cache' = IF f.top THEN Put(cache, f.doc, PROCESSING_MARKER) ELSE cache
            /\ entered' = IF f.top THEN Put(entered, f.doc, Count(f.doc) + 1) ELSE entered
            /\ Goto([f EXCEPT !.pc = "ref"])
            /\ UNCHANGED << retval, nodeLog, phase >>
    /\ UNCHANGED << mode, world, combine, toggle, resolution, loader, rootSel, request, messages, panel, webview, defAcc, defMap, written, loaded, refLog >>

\* the record the history keeps of a handled $ref node
SRefRecord(f, target, emitted, ref, got) ==
    [doc |-> f.doc, node |-> f.node, sel |-> f.sel, target |-> target,
     emitted |-> emitted, ref |-> ref, got |-> got]

\* lines 106-172 and 202-217: a fragment $ref is kept, an external one is looked up
\* among the planned definitions, checked for a cycle, then loaded and processed
SRef ==
    /\ At("single", "ref")
    /\ LET f == Top IN
       IF "$ref" \notin DOMAIN f.node
       THEN /\ Goto([f EXCEPT !.pc = "basic"])
            /\ UNCHANGED << retval, nodeLog, phase, cache, defMap, loaded, refLog >>
       ELSE LET refValue == f.node["$ref"] IN
       IF StartsWithChar(refValue, "#")
       THEN LET out == Ref(refValue) IN
            /\ cache' = IF f.top THEN Put(cache, f.doc, Obj(out)) ELSE cache
            /\ Return([f EXCEPT !.out = out, !.hsc = TRUE], Obj(out), TRUE)
            /\ refLog' = refLog \cup {SRefRecord(f, <<>>, TRUE, refValue, "fragment")}
            /\ UNCHANGED << defMap, loaded >>
       ELSE LET refAbsolutePath == resolveRefPath(refValue, f.doc)
                refSelection == RefSelection(f.sel)
                g == [f EXCEPT !.refAbs = refAbsolutePath, !.refSel = refSelection]
            IN
       IF ~Truthy(refSelection)
       THEN /\ Goto([g EXCEPT !.pc = "basic"])
            /\ refLog' = refLog \cup {SRefRecord(f, refAbsolutePath, FALSE, <<>>, "unselected")}
            /\ UNCHANGED << retval, nodeLog, phase, cache, defMap, loaded >>
       ELSE IF SAlreadyPlanned(defMap, refAbsolutePath)
       THEN LET out == Ref(LocalRef(defMap[refAbsolutePath])) IN
            /\ cache' = IF f.top THEN Put(cache, f.doc, Obj(out)) ELSE cache
            /\ Return([g EXCEPT !.out = out, !.hsc = TRUE], Obj(out), TRUE)
            /\ refLog' = refLog \cup
                  {SRefRecord(f, refAbsolutePath, TRUE, LocalRef(defMap[refAbsolutePath]), "planned")}
            /\ UNCHANGED << defMap, loaded >>
       ELSE IF refAbsolutePath \in DOMAIN cache /\ cache[refAbsolutePath] = PROCESSING_MARKER
       THEN /\ cache' = IF f.top THEN Put(cache, f.doc, Null) ELSE cache
            /\ Return(g, Null, TRUE)
            /\ refLog' = refLog \cup {SRefRecord(f, refAbsolutePath, FALSE, <<>>, "marker")}
            /\ UNCHANGED << defMap, loaded >>
       ELSE IF ~Exists(world, refAbsolutePath)
       THEN /\ loaded' = loaded \cup {refAbsolutePath}
            /\ defMap' = Del(defMap, refAbsolutePath)
            /\ Goto([g EXCEPT !.pc = "basic"])
            /\ refLog' = refLog \cup {SRefRecord(f, refAbsolutePath, FALSE, <<>>, "error")}
            /\ UNCHANGED << retval, nodeLog, phase, cache >>
       ELSE /\ loaded' = loaded \cup {refAbsolutePath}
            /\ defMap' = Put(defMap, refAbsolutePath, generateDefinitionKey(refAbsolutePath))
            /\ Call([g EXCEPT !.pc = "refret"],
                    NewFrame(FS(world)[refAbsolutePath], refSelection, refAbsolutePath, TRUE))
            /\ UNCHANGED << retval, nodeLog, phase, cache, refLog >>
    /\ UNCHANGED << mode, world, combine, toggle, resolution, loader, rootSel, request, messages, panel, webview, defAcc, written, entered >>

\* lines 174-200: the processed target is stored under its key, or the plan is dropped
SRefReturn ==
    /\ At("single", "refret")
    /\ LET f == Top
           r == retval
           definitionKey == generateDefinitionKey(f.refAbs)
       IN  IF IsNonEmptyContent(r)
           THEN LET out == Ref(LocalRef(definitionKey)) IN
                /\ defAcc' = Put(defAcc, definitionKey, r.o)
                /\ cache' = IF f.top THEN Put(cache, f.doc, Obj(out)) ELSE cache
                /\ Return([f EXCEPT !.out = out, !.hsc = TRUE], Obj(out), TRUE)
                /\ refLog' = refLog \cup
                      {SRefRecord(f, f.refAbs, TRUE, LocalRef(definitionKey), "embedded")}
                /\ UNCHANGED defMap
           ELSE /\ defMap' = Del(defMap, f.refAbs)
                /\ Goto([f EXCEPT !.pc = "basic"])
                /\ refLog' = refLog \cup {SRefRecord(f, f.refAbs, FALSE, <<>>, r.k)}
                /\ UNCHANGED << retval, nodeLog, phase, cache, defAcc >>
    /\ UNCHANGED << mode, world, combine, toggle, resolution, loader, rootSel, request, messages, panel, webview, written, entered, loaded >>

\* lines 220-231: basic keywords are copied once no $ref was resolved
SBasic ==
    /\ At("single", "basic")
    /\ LET f == Top
           out == SCopyBasic(f.node)
       IN  Goto([f EXCEPT !.pc = "props", !.out = out,
                          !.hsc = (f.sel.t = "true" /\ NKeys(out) > 0)])
    /\ UNCHANGED << mode, world, combine, toggle, resolution, loader, rootSel, request, messages, panel, webview, phase, retval, cache, defAcc, defMap, written,
                    entered, loaded, refLog, nodeLog >>

\* lines 274-284: the collected properties are put into the output
SPropsDone(f) ==
    IF f.hsp
    THEN LET o1 == IF "type" \notin DOMAIN f.out /\ IsType(f.node, "object")
                   THEN Put(f.out, "type", JStr("object")) ELSE f.out
             o2 == Put(o1, "properties", f.oprops)
             o3 == IF Len(f.oreq) > 0 THEN Put(o2, "required", f.oreq) ELSE o2
         IN  [f EXCEPT !.pc = "items", !.out = o3, !.hsc = TRUE]
    ELSE IF IsType(f.out, "object") /\ NKeys(f.out) = 1
         THEN [f EXCEPT !.pc = "items", !.out = Del(f.out, "type")]
         ELSE [f EXCEPT !.pc = "items"]

\* lines 236-259: the next declared property is looked up in the selection
SProps ==
    /\ At("single", "props")
    /\ LET f == Top IN
       IF ~("properties" \in DOMAIN f.node /\ PropsGate(f.sel))
       THEN Goto([f EXCEPT !.pc = "items"])
       ELSE IF f.i > Len(f.node["properties"])
       THEN Goto(SPropsDone(f))
       ELSE LET p == f.node["properties"][f.i]
                propSelection == PropSelection(f.sel, p.k)
            IN  IF Truthy(propSelection)
                THEN Call([f EXCEPT !.pc = "propret", !.called = f.called \cup {p.k}],
                          NewFrame(p.v, propSelection, f.doc, FALSE))
                ELSE Goto([f EXCEPT !.i = f.i + 1])
    /\ UNCHANGED << mode, world, combine, toggle, resolution, loader, rootSel, request, messages, panel, webview, phase, retval, cache, defAcc, defMap, written,
                    entered, loaded, refLog, nodeLog >>

\* lines 261-270: the result of a property is collected
SPropReturn ==
    /\ At("single", "propret")
    /\ LET f == Top
           p == f.node["properties"][f.i]
           r == retval
       IN  IF IsContent(r)
           THEN Goto([f EXCEPT !.pc = "props", !.i = f.i + 1,
                               !.oprops = Put(f.oprops, p.k, r.o), !.hsp = TRUE,
                               !.ok = f.ok \cup {p.k},
                               !.oreq = RequiredPush(f.oreq, f.node, p.k)])
           ELSE Goto([f EXCEPT !.pc = "props", !.i = f.i + 1])
    /\ UNCHANGED << mode, world, combine, toggle, resolution, loader, rootSel, request, messages, panel, webview, phase, retval, cache, defAcc, defMap, written,
                    entered, loaded, refLog, nodeLog >>

\* lines 287-303: the items schema is processed when selected
SItems ==
    /\ At("single", "items")
    /\ LET f == Top IN
       IF HasItemsSchema(f.node) /\ ItemsGate(f.sel) /\ Truthy(ItemsSelection(f.sel))
       THEN Call([f EXCEPT !.pc = "itemsret", !.sub = TRUE],
                 NewFrame(f.node["items"], ItemsSelection(f.sel), f.doc, FALSE))
       ELSE Goto([f EXCEPT !.pc = "comp", !.kw = 1, !.i = 1, !.olist = <<>>])
    /\ UNCHANGED << mode, world, combine, toggle, resolution, loader, rootSel, request, messages, panel, webview, phase, retval, cache, defAcc, defMap, written,
                    entered, loaded, refLog, nodeLog >>

\* lines 305-315: the result of the items schema is collected
SItemsReturn ==
    /\ At("single", "itemsret")
    /\ LET f == Top
           r == retval
           g == [f EXCEPT !.pc = "comp", !.kw = 1, !.i = 1, !.olist = <<>>]
       IN  IF IsContent(r)
           THEN LET o1 == IF "type" \notin DOMAIN f.out /\ IsType(f.node, "array")
                          THEN Put(f.out, "type", JStr("array")) ELSE f.out
                IN  Goto([g EXCEPT !.out = Put(o1, "items", r.o), !.hsc = TRUE])
           ELSE IF r # PROCESSING_MARKER /\ IsType(f.out, "array") /\ NKeys(f.out) = 1
           THEN Goto([g EXCEPT !.out = Del(f.out, "type")])
           ELSE Goto(g)
    /\ UNCHANGED << mode, world, combine, toggle, resolution, loader, rootSel, request, messages, panel, webview, phase, retval, cache, defAcc, defMap, written,
                    entered, loaded, refLog, nodeLog >>

CompositionKeywords == <<"allOf", "anyOf", "oneOf">>

\* lines 318-338 and 351-360: the next branch of the next composition keyword is
\* processed with the parent's selection; a finished keyword is put into the output
SComposition ==
    /\ At("single", "comp")
    /\ LET f == Top IN
       IF f.kw > Len(CompositionKeywords)
       THEN Goto([f EXCEPT !.pc = "fin"])
       ELSE LET keyword == CompositionKeywords[f.kw] IN
            IF keyword \notin DOMAIN f.node
            THEN Goto([f EXCEPT !.kw = f.kw + 1, !.i = 1, !.olist = <<>>])
            ELSE IF f.i > Len(f.node[keyword])
            THEN Goto(IF Len(f.olist) > 0
                      THEN [f EXCEPT !.kw = f.kw + 1, !.i = 1, !.olist = <<>>,
                                     !.out = Put(f.out, keyword, f.olist), !.hsc = TRUE]
                      ELSE [f EXCEPT !.kw = f.kw + 1, !.i = 1, !.olist = <<>>])
            ELSE Call([f EXCEPT !.pc = "compret", !.sub = TRUE],
                      NewFrame(f.node[keyword][f.i], f.sel, f.doc, FALSE))
    /\ UNCHANGED << mode, world, combine, toggle, resolution, loader, rootSel, request, messages, panel, webview, phase, retval, cache, defAcc, defMap, written,
                    entered, loaded, refLog, nodeLog >>

\* lines 340-345: the result of a branch is collected
SCompositionReturn ==
    /\ At("single", "compret")
    /\ LET f == Top
           r == retval
           keyword == CompositionKeywords[f.kw]
           sofar == IF keyword \in DOMAIN f.brs THEN f.brs[keyword] ELSE <<>>
       IN  Goto([f EXCEPT !.pc = "comp", !.i = f.i + 1,
                          !.olist = IF IsContent(r) THEN Append(f.olist, r.o) ELSE f.olist,
                          !.brs = Put(f.brs, keyword, Append(sofar, r))])
    /\ UNCHANGED << mode, world, combine, toggle, resolution, loader, rootSel, request, messages, panel, webview, phase, retval, cache, defAcc, defMap, written,
                    entered, loaded, refLog, nodeLog >>

\* lines 364-375: final result, cache update of a top-level call, return
SFinish ==
    /\ At("single", "fin")
    /\ LET f == Top
           finalResult == IF f.hsc THEN Obj(f.out) ELSE Null
       IN  /\ cache' = IF f.top THEN StoreResult(cache, f.doc, finalResult) ELSE cache
           /\ Return(f, finalResult, TRUE)
    /\ UNCHANGED << mode, world, combine, toggle, resolution, loader, rootSel, request, messages, panel, webview, defAcc, defMap, written, entered, loaded, refLog >>

(***************************************************************************)
(* generateMask                                                            *)
(***************************************************************************)
SELECTION_FILE_SUFFIX == <<".", "c", "o", "n", "f", "i", "g">> \o DotJson

\* OutputGenerator.tsx: the suffix the payload carries by default
maskSuffix == <<".", "m", "1">>

\* String.prototype.trim on a string of characters
RECURSIVE TrimStart(_)
TrimStart(str) == IF str # <<>> /\ Head(str) = " " THEN TrimStart(Tail(str)) ELSE str

RECURSIVE TrimEnd(_)
TrimEnd(str) == IF str # <<>> /\ Last(str) = " " THEN TrimEnd(Front(str)) ELSE str

Trim(str) == TrimEnd(TrimStart(str))

\* the payload fields next to `selection`: whether mainSchemaId is there,
\* maskSuffix when it is there, and the directory outputDir names
Request(id, has, suffix, dir) ==
    [mainSchemaId |-> id, hasSuffix |-> has, maskSuffix |-> suffix, outputDir |-> dir]

Requests(w) ==
    IF w = 1
    THEN { Request(TRUE, TRUE, maskSuffix, <<OutDir>>),
           Request(TRUE, TRUE, maskSuffix, <<InDir>>),
           Request(TRUE, TRUE, <<".", "v", "2">>, <<OutDir>>),
           Request(TRUE, TRUE, <<>>, <<OutDir>>),
           Request(TRUE, TRUE, <<" ">>, <<OutDir>>),
           Request(TRUE, FALSE, <<>>, <<OutDir>>),
           Request(FALSE, TRUE, maskSuffix, <<OutDir>>) }
    ELSE { Request(TRUE, TRUE, maskSuffix, <<OutDir>>) }

StartRun(p) ==
    /\ phase' = p
    /\ stack' = << NewFrame(FS(world)[MainPath(world)], rootSel, MainPath(world), TRUE) >>
    /\ loaded' = loaded \cup {MainPath(world)}

\* processor.ts 710-715: mainSchemaId and a selection that is an object
MValidRequest(req, sel) == req.mainSchemaId /\ sel.t = "detail"

\* part_006 394-403: mainSchemaId, a truthy selection, a maskSuffix that is not blank
SValidRequest(req, sel) ==
    /\ req.mainSchemaId
    /\ Truthy(sel)
    /\ req.hasSuffix /\ Len(Trim(req.maskSuffix)) > 0

\* processor.ts 703-766: the payload is validated, the main schema loaded and processed
MGenerateMask ==
    /\ mode = "multi" /\ phase = "init"
    /\ IF MValidRequest(request, rootSel) /\ Exists(world, MainPath(world))
       THEN StartRun("run")
       ELSE phase' = "rejected" /\ UNCHANGED << stack, loaded >>
    /\ UNCHANGED << mode, world, combine, toggle, resolution, loader, rootSel, request, messages, panel, webview, retval, cache, defAcc, defMap, written,
                    entered, refLog, nodeLog >>

\* part_006 384-460: the payload is validated, the main schema loaded and processed
SGenerateMask ==
    /\ mode = "single" /\ phase = "init"
    /\ IF SValidRequest(request, rootSel) /\ Exists(world, MainPath(world))
       THEN StartRun("run")
       ELSE phase' = "rejected" /\ UNCHANGED << stack, loaded >>
    /\ UNCHANGED << mode, world, combine, toggle, resolution, loader, rootSel, request, messages, panel, webview, retval, cache, defAcc, defMap, written,
                    entered, refLog, nodeLog >>

\* processor.ts 429-437: processSchema is exported and called on a loaded document
MProcessSchema ==
    /\ mode = "multi" /\ phase = "init"
    /\ StartRun("call")
    /\ UNCHANGED << mode, world, combine, toggle, resolution, loader, rootSel, request, messages, panel, webview, retval, cache, defAcc, defMap, written,
                    entered, refLog, nodeLog >>

\* part_006 54-65: processSchema is exported and called on a loaded document
SProcessSchema ==
    /\ mode = "single" /\ phase = "init"
    /\ StartRun("call")
    /\ UNCHANGED << mode, world, combine, toggle, resolution, loader, rootSel, request, messages, panel, webview, retval, cache, defAcc, defMap, written,
                    entered, refLog, nodeLog >>

\* <maskedBaseName>.config.json of the main document
SelectionFileName(suffix) ==
    LET name == Last(MainPath(world)) IN
    Basename(name, Extname(name)) \o suffix \o SELECTION_FILE_SUFFIX

\* what a write to the disk can do: every write succeeds, the write of the
\* sidecar throws, or the write of a schema file throws
WriteFailures == {"none", "sidecar", "schema"}

\* the content of the sidecar: the whole payload
SelectionFile ==
    [mainSchemaId |-> request.mainSchemaId, selection |-> rootSel,
     maskSuffix |-> request.maskSuffix, outputDir |-> request.outputDir]

\* processor.ts 768-861: the sidecar is written, then every cached non-empty
\* schema; a failing sidecar write is a warning, a failing schema write is thrown
MWriteOutputs ==
    /\ mode = "multi" /\ phase = "processed"
    /\ \E fail \in WriteFailures :
       LET main == MainPath(world)
           sidecar == IsContent(retval) /\ fail # "sidecar"
           selectionFileName == SelectionFileName(MASK_SUFFIX)
           selectionFileAbsPath ==
               PathJoinAbs(DirnameAbs(getOutputPath(main)), <<selectionFileName>>)
           docs == {p \in DOMAIN cache : IsNonEmptyContent(cache[p])}
           target(p) == writeSchemaFile(getOutputPath(p), MASK_SUFFIX)
           content(p) == IF p = main /\ sidecar
                         THEN Put(cache[p].o, "x-mask-selection", selectionFileName)
                         ELSE cache[p].o
           files == IF fail = "schema" THEN {} ELSE {target(p) : p \in docs}
       IN  /\ fail = "sidecar" => IsContent(retval)
           /\ fail = "schema" => docs # {}
           /\ written' =
                [q \in files \cup (IF sidecar THEN {selectionFileAbsPath} ELSE {}) |->
                    IF q \in files
                    THEN content(CHOOSE p \in docs : target(p) = q)
                    ELSE SelectionFile]
           /\ IF fail = "schema"
              THEN /\ phase' = "failed"
                   /\ messages' = messages
              ELSE /\ phase' = "done"
                   /\ messages' = (IF fail = "sidecar" THEN {"sidecar warning"} ELSE {})
                                  \cup (IF files # {} THEN {"generated"} ELSE {"nothing selected"})
    /\ UNCHANGED << mode, world, combine, toggle, resolution, loader, rootSel, request, panel, webview, stack, retval, cache, defAcc, defMap,
                    entered, loaded, refLog, nodeLog >>

\* part_006 462-571: the combined schema with its definitions is written, then
\* the sidecar, which names the output directory relative to the input directory
\* (no workspace folder is open); a failing write is shown as an error and
\* followed by the warning
SWriteOutputs ==
    /\ mode = "single" /\ phase = "processed"
    /\ \E fail \in WriteFailures :
       LET main == MainPath(world)
           suffix == Trim(request.maskSuffix)
           tentativeOutputAbsPath == PathJoinAbs(baseOutputDir, PathRelative(baseInputDir, main))
           outputDir == DirnameAbs(tentativeOutputAbsPath)
           originalExt == Extname(Last(main))
           maskedBaseName == Basename(Last(main), originalExt) \o suffix
           outputMaskFilePath == PathJoinAbs(outputDir, << maskedBaseName \o originalExt >>)
           selectionFileName == maskedBaseName \o SELECTION_FILE_SUFFIX
           selectionFileAbsPath == PathJoinAbs(outputDir, <<selectionFileName>>)
           withDefinitions == IF NKeys(defAcc) > 0
                              THEN Put(retval.o, "definitions", defAcc) ELSE retval.o
           finalCombinedSchema == Put(withDefinitions, "x-mask-selection", selectionFileName)
       IN  /\ fail # "none" => IsContent(retval)
           /\ written' =
                IF ~IsContent(retval) \/ fail = "schema" THEN written
                ELSE IF fail = "sidecar" THEN (outputMaskFilePath :> finalCombinedSchema)
                ELSE (outputMaskFilePath :> finalCombinedSchema)
                     @@ (selectionFileAbsPath :>
                           [SelectionFile EXCEPT
                              !.outputDir = PathRelative(baseInputDir, baseOutputDir)])
           /\ messages' = IF ~IsContent(retval) THEN {"nothing selected"}
                          ELSE IF fail = "none" THEN {"generated"}
                          ELSE {"error", "nothing selected"}
    /\ phase' = "done"
    /\ UNCHANGED << mode, world, combine, toggle, resolution, loader, rootSel, request, panel, webview, stack, retval, cache, defAcc, defMap,
                    entered, loaded, refLog, nodeLog >>

(***************************************************************************)
(* Opening a file in the editor (src/src/extension.ts, App.tsx)            *)
(***************************************************************************)
\* App.tsx: const DEFAULT_OUTPUT_DIR = 'generated_schemas'
DEFAULT_OUTPUT_DIR == << <<"g", "e", "n", "e", "r", "a", "t", "e", "d", "_",
                           "s", "c", "h", "e", "m", "a", "s">> >>

\* fs.existsSync on the input files and the files this run has written
DiskExists(p) == p \in DOMAIN written \/ p \in DOMAIN FS(world)

\* the parsed content of a file
Disk(p) == IF p \in DOMAIN written THEN written[p] ELSE FS(world)[p]

\* utils.ts generatePayload: id and base path of the root document, and the root
\* document itself
PayloadOf(p) ==
    [mainSchemaId |-> <<Last(p)>>, mainSchemaBasePath |-> DirnameAbs(p), root |-> Disk(p)]

ClosedPanel ==
    [stage |-> "closed", filePath |-> <<>>, payloadPath |-> <<>>, isExistingMask |-> FALSE,
     initialSelection |-> SelUndef, initialOutputDir |-> <<>>, ready |-> 0, inbox |-> <<>>,
     generated |-> 0, pending |-> <<>>, reopened |-> 0]

\* App.tsx 285-294: the initial state of the component; effectBasePath is the
\* mainSchemaBasePath the message effect ran with last, applied the number of
\* payloads the component has taken its schema map from
InitialWebview ==
    [mounted |-> FALSE, mainSchemaId |-> <<>>, mainSchemaBasePath |-> <<>>,
     selectionState |-> SelUndef, outputDir |-> DEFAULT_OUTPUT_DIR,
     initialStateJustSet |-> FALSE, effectBasePath |-> <<>>, seen |-> {}, applied |-> 0]

\* extension.ts 56-131: a masked file that names a sidecar gets its selection
\* and output directory from it, and the original is looked for next to the
\* masked file; any other file is shown as it is
OpenedFile(filePath) ==
    LET fileExt == Extname(Last(filePath))
        fileBaseName == Basename(Last(filePath), fileExt)
        openedSchema == Disk(filePath)
        stamped == /\ EndsWith(fileBaseName, MASK_SUFFIX)
                   /\ "x-mask-selection" \in DOMAIN openedSchema
                   /\ openedSchema["x-mask-selection"] # <<>>
        selectionFilePath ==
            PathJoinAbs(DirnameAbs(filePath), << openedSchema["x-mask-selection"] >>)
        found == stamped /\ DiskExists(selectionFilePath)
        parsedConfig == Disk(selectionFilePath)
        isRootSelection == parsedConfig.mainSchemaId /\ Truthy(parsedConfig.selection)
        originalBaseName == SubSeq(fileBaseName, 1, Len(fileBaseName) - Len(MASK_SUFFIX))
        inferredOriginalPath ==
            PathJoinAbs(DirnameAbs(filePath), << originalBaseName \o fileExt >>)
    IN  IF found
        THEN [isExistingMask |-> TRUE,
              initialSelection |-> IF isRootSelection THEN parsedConfig.selection
                                   ELSE Detail(parsedConfig),
              initialOutputDir |-> IF isRootSelection THEN parsedConfig.outputDir ELSE <<>>,
              payloadPath |-> IF DiskExists(inferredOriginalPath)
                              THEN inferredOriginalPath ELSE filePath]
        ELSE [isExistingMask |-> FALSE, initialSelection |-> SelUndef,
              initialOutputDir |-> <<>>, payloadPath |-> filePath]

\* the schema files a run has written
SchemaFiles == {q \in DOMAIN written : "selection" \notin DOMAIN written[q]}

\* extension.ts 48-131 and 170-185: a written schema file is opened when no panel
\* exists; what was found out about the file stays in the closure of the
\* panel's message handler
CreateOrShow ==
    /\ phase = "done" /\ panel.stage = "closed"
    /\ \E filePath \in SchemaFiles :
       LET o == OpenedFile(filePath)
       IN  panel' = [ClosedPanel EXCEPT
                       !.stage = "created", !.filePath = filePath,
                       !.isExistingMask = o.isExistingMask,
                       !.initialSelection = o.initialSelection,
                       !.initialOutputDir = o.initialOutputDir,
                       !.payloadPath = o.payloadPath]
    /\ UNCHANGED << mode, world, combine, toggle, resolution, loader, rootSel, request, messages, webview, phase, stack, retval,
                    cache, defAcc, defMap, written, entered, loaded, refLog, nodeLog >>

\* the messages that carry the payload of a schema: theme, payload and, for an
\* existing mask, the initial state (extension.ts 146-159, 203-218)
PayloadMessages(payloadPath, isExistingMask, initialSelection, initialOutputDir) ==
    << [type |-> "setTheme"],
       [type |-> "dataModelPayload", data |-> PayloadOf(payloadPath)] >>
    \o (IF isExistingMask /\ Truthy(initialSelection)
        THEN << [type |-> "setInitialMaskState", selection |-> initialSelection,
                 outputDir |-> initialOutputDir] >>
        ELSE <<>>)

\* how often a file is opened in the panel that exists
MaxReopen == 1

\* extension.ts 133-169: another file is opened while the panel exists, once
\* its editor shows the file it was created for: currentFilePath is set,
\* 'clearState' is posted, and the payload of the file is asked for
ShowInExistingPanel ==
    /\ panel.stage = "created" /\ webview.mounted /\ panel.reopened < MaxReopen
    /\ panel.ready = 0 /\ panel.inbox = <<>>
    /\ webview.effectBasePath = webview.mainSchemaBasePath
    /\ \E filePath \in SchemaFiles :
          /\ filePath # panel.filePath
          /\ LET o == OpenedFile(filePath)
             IN  panel' = [panel EXCEPT
                             !.filePath = filePath,
                             !.reopened = panel.reopened + 1,
                             !.inbox = panel.inbox \o << [type |-> "clearState"] >>,
                             !.pending = panel.pending
                                 \o << PayloadMessages(o.payloadPath, o.isExistingMask,
                                                       o.initialSelection,
                                                       o.initialOutputDir) >>]
    /\ UNCHANGED << mode, world, combine, toggle, resolution, loader, rootSel, request, messages, webview, phase, stack, retval,
                    cache, defAcc, defMap, written, entered, loaded, refLog, nodeLog >>

\* extension.ts 144-161: the payload asked for is there, its messages are posted
PayloadGenerated ==
    /\ panel.stage = "created" /\ panel.pending # <<>>
    /\ panel' = [panel EXCEPT !.pending = Tail(panel.pending),
                              !.inbox = panel.inbox \o Head(panel.pending)]
    /\ UNCHANGED << mode, world, combine, toggle, resolution, loader, rootSel, request, messages, webview, phase, stack, retval,
                    cache, defAcc, defMap, written, entered, loaded, refLog, nodeLog >>

\* App.tsx 296-403: the message effect runs on mount and whenever
\* mainSchemaBasePath has changed; each run posts 'ready' to the extension
WebviewEffect ==
    /\ panel.stage = "created"
    /\ ~webview.mounted \/ webview.effectBasePath # webview.mainSchemaBasePath
    /\ webview' = [webview EXCEPT !.mounted = TRUE,
                                  !.effectBasePath = webview.mainSchemaBasePath]
    /\ panel' = [panel EXCEPT !.ready = panel.ready + 1]
    /\ UNCHANGED << mode, world, combine, toggle, resolution, loader, rootSel, request, messages, phase, stack, retval,
                    cache, defAcc, defMap, written, entered, loaded, refLog, nodeLog >>

\* extension.ts 189-222: 'ready' is answered with the theme, the payload of the
\* schema and, for an existing mask, its initial state
OnReady ==
    /\ panel.stage = "created" /\ panel.ready > 0
    /\ panel' = [panel EXCEPT
                    !.ready = panel.ready - 1,
                    !.generated = panel.generated + 1,
                    !.inbox = panel.inbox
                              \o PayloadMessages(panel.payloadPath, panel.isExistingMask,
                                                 panel.initialSelection,
                                                 panel.initialOutputDir)]
    /\ UNCHANGED << mode, world, combine, toggle, resolution, loader, rootSel, request, messages, webview, phase, stack, retval,
                    cache, defAcc, defMap, written, entered, loaded, refLog, nodeLog >>

\* App.tsx 322: the payload leaves selection and output directory alone when the
\* initial state of a mask was set just before
KeepsAfterInitialState(w) == w.initialStateJustSet

\* App.tsx 304-370: the webview handles the next message
HandleMessage ==
    /\ panel.inbox # <<>>
    /\ LET message == Head(panel.inbox)
           w == [webview EXCEPT !.seen = webview.seen \cup {message.type}]
       IN  /\ panel' = [panel EXCEPT !.inbox = Tail(panel.inbox)]
           /\ webview' =
                CASE message.type = "dataModelPayload" ->
                        LET loaded1 == [w EXCEPT
                                          !.mainSchemaId = message.data.mainSchemaId,
                                          !.mainSchemaBasePath = message.data.mainSchemaBasePath,
                                          !.applied = w.applied + 1,
                                          !.initialStateJustSet = FALSE]
                        IN  IF KeepsAfterInitialState(webview)
                            THEN loaded1
                            ELSE [loaded1 EXCEPT
                                    !.selectionState = SelUndef,
                                    !.outputDir = IF message.data.mainSchemaBasePath # <<>>
                                                  THEN message.data.mainSchemaBasePath
                                                  ELSE DEFAULT_OUTPUT_DIR]
                  [] message.type = "setInitialMaskState" ->
                        IF Truthy(message.selection)
                        THEN [w EXCEPT
                                !.selectionState = message.selection,
                                !.outputDir = IF message.outputDir # <<>>
                                              THEN message.outputDir
                                              ELSE IF webview.effectBasePath # <<>>
                                                   THEN webview.effectBasePath
                                                   ELSE DEFAULT_OUTPUT_DIR,
                                !.initialStateJustSet = TRUE]
                        ELSE w
                  [] message.type = "clearState" ->
                        [w EXCEPT !.mainSchemaId = <<>>, !.mainSchemaBasePath = <<>>,
                                  !.selectionState = SelUndef,
                                  !.outputDir = DEFAULT_OUTPUT_DIR,
                                  !.initialStateJustSet = FALSE]
                  [] OTHER -> w
    /\ UNCHANGED << mode, world, combine, toggle, resolution, loader, rootSel, request, messages, phase, stack, retval,
                    cache, defAcc, defMap, written, entered, loaded, refLog, nodeLog >>

(***************************************************************************)
(* Reference resolution in the webview (webview-ui/src/utils/schemaUtils.ts)*)
(***************************************************************************)
\* String.prototype.startsWith
StartsWith(s, t) == Len(t) <= Len(s) /\ SubSeq(s, 1, Len(t)) = t

\* String.prototype.lastIndexOf('/') counted from 1, 0 when there is none
LastSlash(s) ==
    LET idx == {i \in DOMAIN s : s[i] = "/"} IN
    IF idx = {} THEN 0 ELSE CHOOSE i \in idx : \A j \in idx : j <= i

\* String.prototype.split('/'): the pieces between the slashes, empty ones kept
RECURSIVE SplitSlash(_, _, _)
SplitSlash(s, cur, acc) ==
    IF s = <<>> THEN Append(acc, cur)
    ELSE IF Head(s) = "/" THEN SplitSlash(Tail(s), <<>>, Append(acc, cur))
    ELSE SplitSlash(Tail(s), Append(cur, Head(s)), acc)

\* Array.prototype.join('/')
RECURSIVE JoinSlash(_)
JoinSlash(parts) ==
    IF parts = <<>> THEN <<>>
    ELSE IF Len(parts) = 1 THEN parts[1]
    ELSE parts[1] \o <<"/">> \o JoinSlash(Tail(parts))

\* schemaUtils.ts 54: const commonPrefixes = ['schemas/', 'definitions/', 'models/']
commonPrefixes == << <<"s", "c", "h", "e", "m", "a", "s", "/">>, <<"d", "e", "f", "i", "n", "i", "t", "i", "o", "n", "s", "/">>, <<"m", "o", "d", "e", "l", "s", "/">> >>

\* schemaUtils.ts 71-88: the loop over the parts of the reference; '..' above the
\* root is dropped
RECURSIVE WalkFromDir(_, _)
WalkFromDir(refParts, currentParts) ==
    IF refParts = <<>> THEN currentParts
    ELSE LET part == Head(refParts) IN
         IF part = <<>> \/ part = Dot THEN WalkFromDir(Tail(refParts), currentParts)
         ELSE IF part = DotDot
              THEN WalkFromDir(Tail(refParts),
                               IF Len(currentParts) > 0 THEN Front(currentParts)
                               ELSE currentParts)
              ELSE WalkFromDir(Tail(refParts), Append(currentParts, part))

\* schemaUtils.ts 36-91, the first definition of resolveRefUri: a reference
\* that does not start with '.' gets the common prefix of the current id when
\* it lacks that prefix
resolveRefUriPrefixed(ref, hasId, currentId) ==
    IF ref = <<>> \/ ~hasId \/ currentId = <<>> THEN ref
    ELSE IF ~StartsWith(ref, Dot)
    THEN LET found == {i \in DOMAIN commonPrefixes :
                          StartsWith(currentId, commonPrefixes[i])}
             some == \E i \in found : ~StartsWith(ref, commonPrefixes[i])
             prefix == commonPrefixes[CHOOSE i \in found : \A j \in found : i <= j]
         IN  IF some THEN prefix \o ref ELSE ref
    ELSE JoinSlash(WalkFromDir(SplitSlash(ref, <<>>, <<>>),
                               Front(SplitSlash(currentId, <<>>, <<>>))))

\* schemaUtils.ts 182-202: the loop over the parts of the combined path; '..'
\* is kept when nothing is left to pop
RECURSIVE NormalizeParts(_, _)
NormalizeParts(parts, resolvedParts) ==
    IF parts = <<>> THEN resolvedParts
    ELSE LET part == Head(parts) IN
         IF part = <<>> \/ part = Dot THEN NormalizeParts(Tail(parts), resolvedParts)
         ELSE IF part = DotDot
              THEN NormalizeParts(Tail(parts),
                                  IF Len(resolvedParts) > 0 /\ Last(resolvedParts) # DotDot
                                  THEN Front(resolvedParts)
                                  ELSE Append(resolvedParts, DotDot))
              ELSE NormalizeParts(Tail(parts), Append(resolvedParts, part))

\* schemaUtils.ts 164: only a reference that starts with '.' is resolved
IsRelativeRef(ref) == StartsWith(ref, Dot)

\* schemaUtils.ts 155-215, the second definition of resolveRefUri
resolveRefUri(ref, hasId, currentId) ==
    IF ref = <<>> \/ ~hasId THEN ref
    ELSE IF ~IsRelativeRef(ref) THEN ref
    ELSE LET currentDir == IF LastSlash(currentId) > 0
                           THEN SubSeq(currentId, 1, LastSlash(currentId) - 1)
                           ELSE <<>>
             combinedPath == IF currentDir # <<>> THEN currentDir \o <<"/">> \o ref ELSE ref
         IN  JoinSlash(NormalizeParts(SplitSlash(combinedPath, <<>>, <<>>), <<>>))

\* the reference strings a call is made with
RefStrings ==
    { <<"P", "e", "t", ".", "j", "s", "o", "n">>,
      <<"c", "o", "m", "m", "o", "n", "/", "a", ".", "j", "s", "o", "n">>,
      <<"s", "c", "h", "e", "m", "a", "s", "/", "a", ".", "j", "s", "o", "n">>,
      <<"m", "o", "d", "e", "l", "s", "/", "a">>,
      <<"#", "/", "d", "e", "f", "i", "n", "i", "t", "i", "o", "n", "s", "/", "x">>,
      <<"/", "a">>,
      <<"a">>,
      <<>>,
      <<".", "/", "a", ".", "j", "s", "o", "n">>,
      <<".", ".", "/", "a", ".", "j", "s", "o", "n">>,
      <<".", "/", "s", "u", "b", "/", ".", ".", "/", "a">>,
      <<".", ".", "/", ".", ".", "/", "a">>,
      <<".", ".", "/", "x", ".", "j", "s", "o", "n">>,
      <<".", ".", "/", "c", "o", "m", "m", "o", "n", "/", "a", "d", "d", "r", "e", "s", "s", ".", "j", "s", "o", "n">>,
      <<".", "/", "a", "/", "/", "b">> }

\* the identifiers of the containing document
CurrentIds ==
    { <<"P", "e", "t", ".", "j", "s", "o", "n">>,
      <<"s", "c", "h", "e", "m", "a", "s", "/", "m", "a", "i", "n", ".", "j", "s", "o", "n">>,
      <<"d", "e", "f", "i", "n", "i", "t", "i", "o", "n", "s", "/", "d", ".", "j", "s", "o", "n">>,
      <<"m", "o", "d", "e", "l", "s", "/", "s", "u", "b", "/", "m", ".", "j", "s", "o", "n">>,
      <<"s", "u", "b", "/", "P", "e", "t", ".", "j", "s", "o", "n">>,
      <<".", ".", "/", "u", "p", "/", "x", ".", "j", "s", "o", "n">>,
      <<"a", "/", "b", ".", "j", "s", "o", "n">>,
      <<"b", ".", "j", "s", "o", "n">>,
      <<"s", "c", "h", "e", "m", "a", "s", "/", "p", "e", "t", "/", "P", "e", "t", ".", "j", "s", "o", "n">>,
      <<>> }

NoResolution ==
    [ref |-> <<>>, hasId |-> FALSE, currentId |-> <<>>, called |-> "no", result |-> <<>>]

\* a call of the first definition
ResolveRefUriPrefixed ==
    /\ resolution.called = "no" /\ phase = "resolve"
    /\ resolution' = [resolution EXCEPT
                        !.called = "first",
                        !.result = resolveRefUriPrefixed(resolution.ref, resolution.hasId,
                                                         resolution.currentId)]
    /\ UNCHANGED << mode, world, combine, toggle, loader, rootSel, request, messages, panel, webview, phase,
                    stack, retval, cache, defAcc, defMap, written, entered, loaded, refLog, nodeLog >>

\* a call of the second definition
ResolveRefUri ==
    /\ resolution.called = "no" /\ phase = "resolve"
    /\ resolution' = [resolution EXCEPT
                        !.called = "second",
                        !.result = resolveRefUri(resolution.ref, resolution.hasId,
                                                 resolution.currentId)]
    /\ UNCHANGED << mode, world, combine, toggle, loader, rootSel, request, messages, panel, webview, phase,
                    stack, retval, cache, defAcc, defMap, written, entered, loaded, refLog, nodeLog >>

(***************************************************************************)
(* Loading the payload (src/src/utils.ts).  A file system of a load is a   *)
(* record of the parsed files and of the paths whose file does not parse.  *)
(* A $ref is kept as the segments of its string, so the string is          *)
(* JoinSlash of it.                                                        *)
(***************************************************************************)
\* typeof value === 'object' && value !== null, for a value that is no array
IsSchemaObject(v) == "jt" \notin DOMAIN v

\* what the accumulators of one load hold: the map, the processed paths, the
\* paths handed to loadSchemaFile in order, the documents scanned in order, and
\* every $ref the scan has followed
EmptyLoad ==
    [schemasMap |-> EmptyObj, processedPaths |-> {}, loads |-> <<>>, scans |-> <<>>,
     followed |-> {}]

\* utils.ts 230: path.relative(basePath, absoluteFilePath).replace(/\\/g, '/')
relativeId(basePath, absoluteFilePath) == JoinSlash(PathRelative(basePath, absoluteFilePath))

\* the path is looked up in the map of the loaded documents only
AlreadyProcessed_InMap(acc, basePath, absoluteFilePath) ==
    relativeId(basePath, absoluteFilePath) \in DOMAIN acc.schemasMap

\* utils.ts 218: processedPaths.has(absoluteFilePath)
AlreadyProcessed(acc, basePath, absoluteFilePath) ==
    absoluteFilePath \in acc.processedPaths

\* the keywords whose value is an object of schemas, an array of schemas, and a
\* single schema (utils.ts 162-197), in the order the scan takes them here; the
\* map and the processed paths do not depend on that order
\* `definitions` is not scanned
MapKeywords_NoDefinitions == << "properties", "patternProperties" >>

MapKeywords == << "properties", "patternProperties", "definitions" >>

ArrayKeywords == << "allOf", "anyOf", "oneOf" >>

SingleKeywords == << "not", "additionalProperties", "additionalItems" >>

RECURSIVE EntryValues(_)
EntryValues(entries) ==
    IF entries = <<>> THEN <<>> ELSE << Head(entries).v >> \o EntryValues(Tail(entries))

\* utils.ts 155-206: the values the scan of a node descends into, in order
RECURSIVE ChildrenOf(_, _, _)
ChildrenOf(kind, keywords, node) ==
    IF keywords = <<>> THEN <<>>
    ELSE LET key == Head(keywords)
             here == IF key \notin DOMAIN node THEN <<>>
                     ELSE CASE kind = "map" -> EntryValues(node[key])
                            [] kind = "array" -> node[key]
                            [] OTHER -> << node[key] >>
         IN  here \o ChildrenOf(kind, Tail(keywords), node)

ItemsOf(node) ==
    IF "items" \notin DOMAIN node THEN <<>>
    ELSE IF IsSchemaObject(node["items"]) THEN << node["items"] >>
    ELSE node["items"].elems

Children(node) ==
    ChildrenOf("map", MapKeywords, node) \o ItemsOf(node)
       \o ChildrenOf("array", ArrayKeywords, node)
       \o ChildrenOf("single", SingleKeywords, node)

\* a call that is still to be made: processSchemaFile on a path, or
\* findAndProcessRefs on a value of the document at a path
FileCall(path) == [call |-> "processSchemaFile", path |-> path, value |-> EmptyObj]

ScanCall(value, path) == [call |-> "findAndProcessRefs", path |-> path, value |-> value]

RECURSIVE ScanCalls(_, _)
ScanCalls(values, path) ==
    IF values = <<>> THEN <<>>
    ELSE << ScanCall(Head(values), path) >> \o ScanCalls(Tail(values), path)

\* an array of schemas as the value of `items`
JSchemas(elems) == [jt |-> "array", n |-> Len(elems), elems |-> elems]

BadJson == <<"B", "a", "d">> \o DotJson

\* the documents of a load: Main.json and A.json in the input directory,
\* Addr.json and B.json in its sub directory, a file Bad.json that does not
\* parse, and no file Missing.json
LMain == <<InDir, MainJson>>

LAddr == <<InDir, SubDir, AddrJson>>

LA == <<InDir, AJson>>

LB == <<InDir, SubDir, BJson>>

LBad == <<InDir, BadJson>>

LMainChoices ==
    { [properties |-> << Prop("home", Ref(<<Dot, SubDir, AddrJson>>)),
                         Prop("a", Ref(<<Dot, AJson>>)) >>],
      [type |-> JStr("array"), items |-> Ref(<<Dot, SubDir, AddrJson>>)],
      [allOf |-> << Ref(<<Dot, AJson>>),
                    [properties |-> << Prop("gone", Ref(<<Dot, MissingJson>>)) >>] >>],
      [not |-> Ref(<<Dot, AJson>>), additionalProperties |-> Ref(<<SubDir, AddrJson>>)],
      [definitions |-> << Prop("d", Ref(<<Dot, SubDir, AddrJson>>)) >>,
       patternProperties |-> << Prop("p", Ref(<<Dot, AJson>>)) >>],
      [properties |-> << Prop("a", Ref(<<Dot, AJson>>)) >>] @@ Ref(<<Dot, MainJson>>),
      [extension |-> Ref(<<Dot, AJson>>),
       properties |-> << Prop("home", Ref(<<Dot, SubDir, AddrJson>>)) >>],
      [properties |-> << Prop("bad", Ref(<<Dot, BadJson>>)),
                         Prop("a", Ref(<<Dot, AJson>>)),
                         Prop("gone", Ref(<<Dot, MissingJson>>)),
                         Prop("again", Ref(<<Dot, AJson>>)) >>],
      [type |-> JStr("array"),
       items |-> JSchemas(<< Ref(<<Dot, AJson>>), Ref(<<Dot, SubDir, AddrJson>>) >>),
       additionalItems |-> Ref(<<Dot, SubDir, BJson>>)] }

LAddrChoices ==
    { Ref(<<DotDot, AJson>>),
      [properties |-> << Prop("back", Ref(<<DotDot, MainJson>>)) >>],
      [properties |-> << Prop("u", Ref(<<BJson>>)) >>],
      StringNode,
      [oneOf |-> << Ref(<<Dot, BJson>>), Ref(<<Dot, AddrJson>>) >>] }

LAChoices ==
    { StringNode,
      [oneOf |-> << Ref(<<Dot, SubDir, AddrJson>>) >>],
      [type |-> JStr("array"), items |-> Ref(<<Dot, AJson>>)],
      [anyOf |-> << Ref(<<Dot, MainJson>>) >>,
       definitions |-> << Prop("x", Ref(<<Dot, BadJson>>)) >>] }

LBChoices == { StringNode, Ref(<<DotDot, AJson>>) }

LoadFileSystems ==
    { [files |-> (LMain :> cm) @@ (LAddr :> ca) @@ (LA :> ct) @@ (LB :> cb)
                 @@ (LBad :> EmptyObj),
       bad |-> {LBad}] :
        cm \in LMainChoices, ca \in LAddrChoices, ct \in LAChoices, cb \in LBChoices }

\* the documents a load is started on
LoadMains == {LMain, LAddr}

NoLoad ==
    [fs |-> [files |-> EmptyObj, bad |-> {}], main |-> <<>>, basePath |-> <<>>,
     stage |-> "idle", calls |-> <<>>, acc |-> EmptyLoad,
     payload |-> [mainSchemaId |-> <<>>, mainSchemaBasePath |-> <<>>, schemas |-> EmptyObj]]

\* utils.ts 251-267: generatePayload starts with the main document
GeneratePayload ==
    /\ phase = "load" /\ loader.stage = "idle"
    /\ loader' = [loader EXCEPT !.stage = "loading",
                                !.basePath = DirnameAbs(loader.main),
                                !.calls = << FileCall(loader.main) >>]
    /\ UNCHANGED << mode, world, combine, toggle, resolution, rootSel, request, messages, panel, webview,
                    phase, stack, retval, cache, defAcc, defMap, written, entered, loaded,
                    refLog, nodeLog >>

\* utils.ts 210-243: a path is marked before its file is loaded; a file that is
\* missing or does not parse makes loadSchemaFile throw, which is caught; a
\* loaded document is stored and then scanned
ProcessSchemaFile ==
    /\ loader.stage = "loading" /\ loader.calls # <<>>
    /\ Head(loader.calls).call = "processSchemaFile"
    /\ LET absoluteFilePath == Head(loader.calls).path
           acc == loader.acc
           marked == [acc EXCEPT !.processedPaths = @ \cup {absoluteFilePath},
                                 !.loads = Append(@, absoluteFilePath)]
           schema == loader.fs.files[absoluteFilePath]
       IN  IF AlreadyProcessed(acc, loader.basePath, absoluteFilePath)
           THEN loader' = [loader EXCEPT !.calls = Tail(@)]
           ELSE IF absoluteFilePath \notin DOMAIN loader.fs.files
                   \/ absoluteFilePath \in loader.fs.bad
           THEN loader' = [loader EXCEPT !.calls = Tail(@), !.acc = marked]
           ELSE loader' =
                  [loader EXCEPT
                     !.calls = << ScanCall(schema, absoluteFilePath) >> \o Tail(@),
                     !.acc = [marked EXCEPT
                                !.schemasMap = Put(@, relativeId(loader.basePath,
                                                                 absoluteFilePath), schema),
                                !.scans = Append(@, absoluteFilePath)]]
    /\ UNCHANGED << mode, world, combine, toggle, resolution, rootSel, request, messages, panel, webview,
                    phase, stack, retval, cache, defAcc, defMap, written, entered, loaded,
                    refLog, nodeLog >>

\* utils.ts 130-207: a value that is no object is left alone; a $ref is resolved
\* and its file processed, then the values under the schema keywords are scanned
FindAndProcessRefs ==
    /\ loader.stage = "loading" /\ loader.calls # <<>>
    /\ Head(loader.calls).call = "findAndProcessRefs"
    /\ LET schemaObject == Head(loader.calls).value
           currentSchemaPath == Head(loader.calls).path
           resolvedPath == resolveRefPath(schemaObject["$ref"], currentSchemaPath)
       IN  IF ~IsSchemaObject(schemaObject)
           THEN loader' = [loader EXCEPT !.calls = Tail(@)]
           ELSE IF "$ref" \in DOMAIN schemaObject
           THEN loader' =
                  [loader EXCEPT
                     !.calls = << FileCall(resolvedPath) >>
                               \o ScanCalls(Children(schemaObject), currentSchemaPath)
                               \o Tail(@),
                     !.acc.followed = @ \cup {[from |-> currentSchemaPath,
                                               ref |-> schemaObject["$ref"],
                                               to |-> resolvedPath]}]
           ELSE loader' =
                  [loader EXCEPT
                     !.calls = ScanCalls(Children(schemaObject), currentSchemaPath)
                               \o Tail(@)]
    /\ UNCHANGED << mode, world, combine, toggle, resolution, rootSel, request, messages, panel, webview,
                    phase, stack, retval, cache, defAcc, defMap, written, entered, loaded,
                    refLog, nodeLog >>

\* utils.ts 269-280: the payload is built from the map once every call returned
ReturnPayload ==
    /\ loader.stage = "loading" /\ loader.calls = <<>>
    /\ loader' = [loader EXCEPT
                    !.stage = "returned",
                    !.payload = [mainSchemaId |-> relativeId(loader.basePath, loader.main),
                                 mainSchemaBasePath |-> loader.basePath,
                                 schemas |-> loader.acc.schemasMap]]
    /\ UNCHANGED << mode, world, combine, toggle, resolution, rootSel, request, messages, panel, webview,
                    phase, stack, retval, cache, defAcc, defMap, written, entered, loaded,
                    refLog, nodeLog >>

(***************************************************************************)
(* The selection under the check boxes (schemaUtils.ts setDeepValue,       *)
(* SchemaNode.tsx, App.tsx handleToggle).  Between two toggles the         *)
(* selection is kept as a tree in which every object, also the one under   *)
(* `properties`, is a Detail; a key may hold undefined.  During a toggle   *)
(* the objects live in a heap, a sequence of objects whose index is the    *)
(* object's identity, so that a copy and the object copied are told apart. *)
(***************************************************************************)
\* a reference to the object at an address of the heap
ObjAt(a) == [t |-> "at", a |-> a]

IsAt(v) == v.t = "at"

\* the keys of an object in a fixed order
RECURSIVE KeySeq(_)
KeySeq(ks) ==
    IF ks = {} THEN <<>>
    ELSE LET k == CHOOSE x \in ks : TRUE IN << k >> \o KeySeq(ks \ {k})

\* the tree is put into the heap, children first
RECURSIVE Store(_, _)
RECURSIVE StoreKeys(_, _, _, _)
StoreKeys(heap, d, keys, obj) ==
    IF keys = <<>> THEN [heap |-> Append(heap, obj), val |-> ObjAt(Len(heap) + 1)]
    ELSE LET child == Store(heap, d[Head(keys)])
         IN  StoreKeys(child.heap, d, Tail(keys), Put(obj, Head(keys), child.val))

Store(heap, tree) ==
    IF tree.t # "detail" THEN [heap |-> heap, val |-> tree]
    ELSE StoreKeys(heap, tree.d, KeySeq(DOMAIN tree.d), EmptyObj)

\* the tree below a value of the heap
RECURSIVE Load(_, _)
Load(heap, val) ==
    IF ~IsAt(val) THEN val
    ELSE Detail([k \in DOMAIN heap[val.a] |-> Load(heap, heap[val.a][k])])

\* the level is changed in place
CopyLevel_InPlace(heap, obj) ==
    IF IsAt(obj) THEN [heap |-> heap, a |-> obj.a]
    ELSE [heap |-> Append(heap, EmptyObj), a |-> Len(heap) + 1]

\* schemaUtils.ts 221-223: { ...obj } for an object, {} for anything else
CopyLevel(heap, obj) ==
    [heap |-> Append(heap, IF IsAt(obj) THEN heap[obj.a] ELSE EmptyObj),
     a |-> Len(heap) + 1]

\* the level is returned even when it has no key left
LevelResult_Keep(heap, currentLevel) == ObjAt(currentLevel)

\* schemaUtils.ts 234: Object.keys(currentLevel).length > 0 ? currentLevel : undefined
LevelResult(heap, currentLevel) ==
    IF NKeys(heap[currentLevel]) > 0 THEN ObjAt(currentLevel) ELSE SelUndef

\* schemaUtils.ts 213-235
RECURSIVE setDeepValue(_, _, _, _)
setDeepValue(heap, obj, path, value) ==
    IF path = <<>> THEN [heap |-> heap, val |-> value]
    ELSE LET currentKey == Head(path)
             copy == CopyLevel(heap, obj)
             currentLevel == copy.a
             currentValueForKey ==
                 IF currentKey \in DOMAIN copy.heap[currentLevel]
                 THEN copy.heap[currentLevel][currentKey] ELSE SelUndef
             sub == setDeepValue(copy.heap, currentValueForKey, Tail(path), value)
             newValueForKey == sub.val
             after == [sub.heap EXCEPT
                         ![currentLevel] = IF newValueForKey = SelUndef
                                           THEN Del(@, currentKey)
                                           ELSE Put(@, currentKey, newValueForKey)]
         IN  [heap |-> after, val |-> LevelResult(after, currentLevel)]

\* schemaUtils.ts 132-140
getSelectionValue(heap, selection, key) ==
    IF ~IsAt(selection) THEN SelUndef
    ELSE IF key \in DOMAIN heap[selection.a] THEN heap[selection.a][key] ELSE SelUndef

\* the selection a node at a path is rendered with
RECURSIVE SelectionAt(_, _, _)
SelectionAt(heap, selection, path) ==
    IF path = <<>> THEN selection
    ELSE SelectionAt(heap, getSelectionValue(heap, selection, Head(path)), Tail(path))

\* the schema shown: an object with a plain property a, a property r that is a
\* $ref to a document with a property x, and an array l of objects with a
\* property k
VLeaf == [ref |-> FALSE, props |-> EmptyObj, hasItems |-> FALSE]

VTarget == [ref |-> FALSE, props |-> [x |-> VLeaf], hasItems |-> FALSE]

VRef == [ref |-> TRUE, target |-> VTarget, props |-> EmptyObj, hasItems |-> FALSE]

VList ==
    [ref |-> FALSE, props |-> EmptyObj, hasItems |-> TRUE,
     items |-> [ref |-> FALSE, props |-> [k |-> VLeaf], hasItems |-> FALSE]]

VRoot == [ref |-> FALSE, props |-> [a |-> VLeaf, r |-> VRef, l |-> VList], hasItems |-> FALSE]

\* !!selection
Shown(sel) == sel.t \in {"true", "detail"}

\* typeof selection === 'object' && selection !== null && '$refTargetSelection' in selection
hasRefTargetSelection(sel) == sel.t = "detail" /\ "$refTargetSelection" \in DOMAIN sel.d

Below(sel, key) == IF sel.t = "detail" /\ key \in DOMAIN sel.d THEN sel.d[key] ELSE SelUndef

\* SchemaNode.tsx 143-200: the check boxes on the screen, each with the path of
\* its node: every rendered node has its own, a node with a resolved $ref that
\* is selected has the one of the reference target; the children of a node are
\* rendered when it is selected, the target when the key $refTargetSelection is
\* there, properties and items when it is not
RECURSIVE CheckBoxes(_, _, _)
CheckBoxes(view, sel, path) ==
    {[box |-> "node", path |-> path]}
       \cup (IF view.ref /\ Shown(sel) THEN {[box |-> "target", path |-> path]} ELSE {})
       \cup (IF Shown(sel) /\ view.ref /\ hasRefTargetSelection(sel)
             THEN CheckBoxes(view.target, Below(sel, "$refTargetSelection"),
                             path \o <<"$refTargetSelection">>)
             ELSE {})
       \cup (IF Shown(sel) /\ ~hasRefTargetSelection(sel)
             THEN UNION {CheckBoxes(view.props[key], Below(Below(sel, "properties"), key),
                                    path \o <<"properties", key>>) : key \in DOMAIN view.props}
             ELSE {})
       \cup (IF Shown(sel) /\ ~hasRefTargetSelection(sel) /\ view.hasItems
             THEN CheckBoxes(view.items, Below(sel, "items"), path \o <<"items">>)
             ELSE {})

\* the two versions of handleRefTargetToggle
Versions == {"SchemaNode.tsx", "part_003"}

NoToggle ==
    [version |-> "SchemaNode.tsx", selectionState |-> SelUndef, toggled |-> "none",
     path |-> <<>>, prevState |-> SelUndef, prevStateAfter |-> SelUndef,
     newValue |-> SelUndef]

\* App.tsx 425-438: setSelectionState(prevState => setDeepValue(prevState, path,
\* newValue)); what is kept of the call: its arguments, its result as the new
\* selection, and the tree below the old state once the call has returned
handleToggle(box, stored, path, made) ==
    LET done == setDeepValue(made.heap, stored.val, path, made.val)
    IN  [toggle EXCEPT
           !.toggled = box, !.path = path,
           !.prevState = toggle.selectionState,
           !.newValue = Load(made.heap, made.val),
           !.selectionState = Load(done.heap, done.val),
           !.prevStateAfter = Load(done.heap, stored.val)]

\* SchemaNode.tsx 121-124: onToggle(path, isChecked ? true : undefined); the box
\* is checked when the selection is exactly true
HandleToggle ==
    /\ phase = "toggle"
    /\ \E b \in CheckBoxes(VRoot, toggle.selectionState, <<>>) :
          /\ b.box = "node"
          /\ LET stored == Store(<<>>, toggle.selectionState)
                 selection == SelectionAt(stored.heap, stored.val, b.path)
                 isChecked == selection # SelTrue
             IN  toggle' = handleToggle("node", stored, b.path,
                                        [heap |-> stored.heap,
                                         val |-> IF isChecked THEN SelTrue ELSE SelUndef])
    /\ UNCHANGED << mode, world, combine, resolution, loader, rootSel, request, messages, panel,
                    webview, phase, stack, retval, cache, defAcc, defMap, written, entered,
                    loaded, refLog, nodeLog >>

\* SchemaNode.tsx 126-141: checking puts $refTargetSelection: true into a copy
\* of the node's selection object, unchecking passes the rest of the object, or
\* undefined when nothing is left
HandleRefTargetToggle ==
    /\ phase = "toggle" /\ toggle.version = "SchemaNode.tsx"
    /\ \E b \in CheckBoxes(VRoot, toggle.selectionState, <<>>) :
          /\ b.box = "target"
          /\ LET stored == Store(<<>>, toggle.selectionState)
                 selection == SelectionAt(stored.heap, stored.val, b.path)
                 currentSelectionObject ==
                     IF IsAt(selection) THEN stored.heap[selection.a] ELSE EmptyObj
                 isChecked == "$refTargetSelection" \notin DOMAIN currentSelectionObject
                 rest == Del(currentSelectionObject, "$refTargetSelection")
                 made ==
                     IF isChecked
                     THEN [heap |-> Append(stored.heap,
                                           Put(currentSelectionObject,
                                               "$refTargetSelection", SelTrue)),
                           val |-> ObjAt(Len(stored.heap) + 1)]
                     ELSE IF NKeys(rest) > 0
                     THEN [heap |-> Append(stored.heap, rest),
                           val |-> ObjAt(Len(stored.heap) + 1)]
                     ELSE [heap |-> stored.heap, val |-> SelUndef]
             IN  toggle' = handleToggle("target", stored, b.path, made)
    /\ UNCHANGED << mode, world, combine, resolution, loader, rootSel, request, messages, panel,
                    webview, phase, stack, retval, cache, defAcc, defMap, written, entered,
                    loaded, refLog, nodeLog >>

\* part_003 422-435: checking puts $refTargetSelection: {} into a copy of the
\* node's selection object, unchecking puts undefined under that key, and passes
\* true when it is the only key
HandleRefTargetToggleObject ==
    /\ phase = "toggle" /\ toggle.version = "part_003"
    /\ \E b \in CheckBoxes(VRoot, toggle.selectionState, <<>>) :
          /\ b.box = "target"
          /\ LET stored == Store(<<>>, toggle.selectionState)
                 selection == SelectionAt(stored.heap, stored.val, b.path)
                 currentSelectionObject ==
                     IF IsAt(selection) THEN stored.heap[selection.a] ELSE EmptyObj
                 isChecked == "$refTargetSelection" \notin DOMAIN currentSelectionObject
                 withEmpty == Append(stored.heap, EmptyObj)
                 made ==
                     IF isChecked
                     THEN [heap |-> Append(withEmpty,
                                           Put(currentSelectionObject, "$refTargetSelection",
                                               ObjAt(Len(withEmpty)))),
                           val |-> ObjAt(Len(withEmpty) + 1)]
                     ELSE IF NKeys(Put(currentSelectionObject,
                                       "$refTargetSelection", SelUndef)) = 1
                     THEN [heap |-> stored.heap, val |-> SelTrue]
                     ELSE [heap |-> Append(stored.heap,
                                           Put(currentSelectionObject,
                                               "$refTargetSelection", SelUndef)),
                           val |-> ObjAt(Len(stored.heap) + 1)]
             IN  toggle' = handleToggle("target", stored, b.path, made)
    /\ UNCHANGED << mode, world, combine, resolution, loader, rootSel, request, messages, panel,
                    webview, phase, stack, retval, cache, defAcc, defMap, written, entered,
                    loaded, refLog, nodeLog >>

(***************************************************************************)
(* The properties a node is rendered with (part_000 268-322,               *)
(* getCombinedProperties).  The recursion is a stack of calls; visitedRefs *)
(* is the one Set all the calls of a top-level call share.                 *)
(***************************************************************************)
\* a property schema that tells where it was declared
CV(tag) == [title |-> JStr(tag)]

CMain == MainJson

CA == AJson

CB == BJson

CAddr == JoinSlash(<<SubDir, AddrJson>>)

CMainChoices ==
    { [properties |-> << Prop("p", CV("own")), Prop("q", CV("own")), Prop("o", CV("own")) >>,
       allOf |-> << [properties |-> << Prop("p", CV("all1")), Prop("q", CV("all1")) >>],
                    [properties |-> << Prop("p", CV("all2")), Prop("r", CV("all2")) >>] >>,
       anyOf |-> << [properties |-> << Prop("r", CV("any")), Prop("q", CV("any")) >>] >>,
       oneOf |-> << [properties |-> << Prop("q", CV("one")) >>] >>],
      [allOf |-> << Ref(<<Dot, AJson>>), Ref(<<Dot, BJson>>) >>],
      [properties |-> << Prop("p", CV("own")) >>] @@ Ref(<<Dot, MainJson>>),
      [properties |-> << Prop("p", CV("own")) >>,
       oneOf |-> << Ref(<<Dot, AJson>>) >>,
       anyOf |-> << Ref(<<Dot, AJson>>), [jt |-> "boolean", v |-> TRUE] >>],
      [properties |-> << Prop("p", CV("own")) >>,
       allOf |-> << [anyOf |-> << Ref(<<Dot, MissingJson>>),
                                  [properties |-> << Prop("p", CV("nested")) >>] >>,
                     oneOf |-> << Ref(<<Dot, SubDir, AddrJson>>) >>] >>] }

CAChoices ==
    { [properties |-> << Prop("p", CV("A")), Prop("s", CV("A")) >>],
      Ref(<<Dot, BJson>>),
      Ref(<<Dot, SubDir, AddrJson>>),
      [properties |-> << Prop("s", CV("A")) >>, allOf |-> << Ref(<<Dot, MainJson>>) >>] }

CBChoices ==
    { [properties |-> << Prop("p", CV("B")), Prop("t", CV("B")) >>],
      Ref(<<Dot, AJson>>),
      Ref(<<Dot, SubDir, AddrJson>>) }

CAddrChoices ==
    { [properties |-> << Prop("p", CV("Addr")), Prop("u", CV("Addr")) >>],
      Ref(<<DotDot, MainJson>>),
      [properties |-> << Prop("u", CV("Addr")) >>, oneOf |-> << Ref(<<DotDot, AJson>>) >>] }

\* the schema maps of the payload
SchemaMaps ==
    { [id \in {CMain, CA, CB, CAddr} |->
          IF id = CMain THEN main ELSE IF id = CA THEN a ELSE IF id = CB THEN b ELSE addr] :
      main \in CMainChoices, a \in CAChoices, b \in CBChoices, addr \in CAddrChoices }

\* the $ref values of the schema maps
CombineRefs ==
    { <<Dot, MainJson>>, <<Dot, AJson>>, <<Dot, BJson>>, <<Dot, MissingJson>>,
      <<Dot, SubDir, AddrJson>>, <<DotDot, MainJson>>, <<DotDot, AJson>> }

\* part_000 281: resolveRefUri(schema.$ref, schemaId), tabulated over the
\* references and the ids of the schema maps
ResolvedIds ==
    [ref \in CombineRefs |->
        [schemaId \in {CMain, CA, CB, CAddr} |->
            resolveRefUri(JoinSlash(ref), TRUE, schemaId)]]

NoProps == [has |-> FALSE, props |-> EmptyObj]

NoCombine ==
    [allSchemas |-> EmptyObj, root |-> <<>>, stage |-> "idle", calls |-> <<>>,
     visitedRefs |-> {}, returned |-> NoProps, result |-> EmptyObj,
     entry |-> {}, exit |-> {}, recursed |-> <<>>, cut |-> {}]

\* one call of getCombinedProperties: its arguments, where it stands, its
\* combinedProps and the branches forEach has still to visit, and visitedRefs
\* as it was when the call was entered
CombineCall(schema, schemaId, visited) ==
    [schema |-> schema, schemaId |-> schemaId, pc |-> "enter", combinedProps |-> EmptyObj,
     branches |-> <<>>, resolvedId |-> <<>>, entered |-> visited]

\* part_000 301-303: { ...schema.properties }
OwnProperties(schema) ==
    IF "properties" \in DOMAIN schema
    THEN [name \in PropNames(schema) |->
             LET i == CHOOSE j \in DOMAIN schema["properties"] :
                         /\ schema["properties"][j].k = name
                         /\ \A l \in DOMAIN schema["properties"] :
                               schema["properties"][l].k = name => l <= j
             IN  schema["properties"][i].v]
    ELSE EmptyObj

BranchesOf(schema, keyword) == IF keyword \in DOMAIN schema THEN schema[keyword] ELSE <<>>

\* part_000 318-320: the composition arrays in the order they are processed
CompositionOrder_OneOfFirst(schema) ==
    BranchesOf(schema, "oneOf") \o BranchesOf(schema, "anyOf") \o BranchesOf(schema, "allOf")

CompositionOrder(schema) ==
    BranchesOf(schema, "allOf") \o BranchesOf(schema, "anyOf") \o BranchesOf(schema, "oneOf")

\* part_000 312: { ...combinedProps, ...subSchemaProps }
MergeProps(combinedProps, subSchemaProps) ==
    [name \in DOMAIN combinedProps \cup DOMAIN subSchemaProps |->
        IF name \in DOMAIN subSchemaProps THEN subSchemaProps[name] ELSE combinedProps[name]]

\* the entry stays in the set
Unvisit_Keep(visitedRefs, resolvedId) == visitedRefs

\* part_000 289: visitedRefs.delete(resolvedId)
Unvisit(visitedRefs, resolvedId) == visitedRefs \ {resolvedId}

\* the references the calls on the stack are waiting for
Awaited(calls) == {calls[i].resolvedId : i \in {j \in DOMAIN calls : calls[j].pc = "afterRef"}}

\* a call returns: it leaves the stack and its value is handed to its caller,
\* or is the result when it was the top-level call
ReturnProps(c, calls, visited, props) ==
    [c EXCEPT
       !.calls = SubSeq(calls, 1, Len(calls) - 1),
       !.visitedRefs = visited,
       !.returned = [has |-> TRUE, props |-> props],
       !.entry = calls[Len(calls)].entered,
       !.exit = visited,
       !.stage = IF Len(calls) = 1 THEN "returned" ELSE c.stage,
       !.result = IF Len(calls) = 1 THEN props ELSE c.result]

\* part_000 268-304: a call is entered.  Anything but an object gives {}.  A
\* $ref is resolved against schemaId: {} when the id is in visitedRefs or not in
\* the map, else the id is added and the target is entered under its own id.
\* Without $ref the own properties are copied and the branches are lined up.
GetCombinedProperties ==
    /\ phase = "combine" /\ combine.stage = "running"
    /\ combine.calls # <<>>
    /\ LET n == Len(combine.calls)
           call == combine.calls[n]
           schema == call.schema
       IN  /\ call.pc = "enter"
           /\ \E resolvedId \in
                    {IF IsSchemaObject(schema) /\ "$ref" \in DOMAIN schema
                     THEN ResolvedIds[schema["$ref"]][call.schemaId]
                     ELSE <<>>} :
              combine' =
                IF ~IsSchemaObject(schema)
                THEN ReturnProps(combine, combine.calls, combine.visitedRefs, EmptyObj)
                ELSE IF "$ref" \in DOMAIN schema
                THEN IF resolvedId \in combine.visitedRefs
                     THEN [ReturnProps(combine, combine.calls, combine.visitedRefs, EmptyObj)
                             EXCEPT !.cut = @ \cup {[resolvedId |-> resolvedId,
                                                     awaited |-> Awaited(combine.calls)]}]
                     ELSE IF resolvedId \in DOMAIN combine.allSchemas
                     THEN [combine EXCEPT
                             !.visitedRefs = @ \cup {resolvedId},
                             !.recursed = Append(@, resolvedId),
                             !.calls = Append([combine.calls EXCEPT
                                                 ![n].pc = "afterRef",
                                                 ![n].resolvedId = resolvedId],
                                              CombineCall(combine.allSchemas[resolvedId],
                                                          resolvedId,
                                                          combine.visitedRefs
                                                             \cup {resolvedId}))]
                     ELSE ReturnProps(combine, combine.calls, combine.visitedRefs, EmptyObj)
                ELSE [combine EXCEPT
                        !.calls[n].pc = "forEach",
                        !.calls[n].combinedProps = OwnProperties(schema),
                        !.calls[n].branches = CompositionOrder(schema)]
    /\ UNCHANGED << mode, world, toggle, resolution, loader, rootSel, request, messages,
                    panel, webview, phase, stack, retval, cache, defAcc, defMap, written,
                    entered, loaded, refLog, nodeLog >>

\* part_000 288-290: the call on the target has returned: the id is deleted
\* from visitedRefs and the target's properties are returned
ReturnReferenced ==
    /\ phase = "combine" /\ combine.stage = "running"
    /\ combine.calls # <<>>
    /\ combine.returned.has
    /\ LET call == combine.calls[Len(combine.calls)]
       IN  /\ call.pc = "afterRef"
           /\ combine' = ReturnProps(combine, combine.calls,
                                     Unvisit(combine.visitedRefs, call.resolvedId),
                                     combine.returned.props)
    /\ UNCHANGED << mode, world, toggle, resolution, loader, rootSel, request, messages,
                    panel, webview, phase, stack, retval, cache, defAcc, defMap, written,
                    entered, loaded, refLog, nodeLog >>

\* part_000 306-322: forEach enters the next branch under the same schemaId
\* and with the same visitedRefs; after the last one combinedProps is returned
ProcessCompositionArray ==
    /\ phase = "combine" /\ combine.stage = "running"
    /\ combine.calls # <<>>
    /\ LET n == Len(combine.calls)
           call == combine.calls[n]
       IN  /\ call.pc = "forEach"
           /\ combine' =
                IF call.branches = <<>>
                THEN ReturnProps(combine, combine.calls, combine.visitedRefs,
                                 call.combinedProps)
                ELSE [combine EXCEPT
                        !.returned = NoProps,
                        !.calls = Append([combine.calls EXCEPT ![n].pc = "merge"],
                                         CombineCall(Head(call.branches), call.schemaId,
                                                     combine.visitedRefs))]
    /\ UNCHANGED << mode, world, toggle, resolution, loader, rootSel, request, messages,
                    panel, webview, phase, stack, retval, cache, defAcc, defMap, written,
                    entered, loaded, refLog, nodeLog >>

\* part_000 310-313: the branch has returned and its properties are merged over
\* combinedProps
MergeSubSchemaProps ==
    /\ phase = "combine" /\ combine.stage = "running"
    /\ combine.calls # <<>>
    /\ combine.returned.has
    /\ LET n == Len(combine.calls)
           call == combine.calls[n]
       IN  /\ call.pc = "merge"
           /\ combine' = [combine EXCEPT
                            !.returned = NoProps,
                            !.calls[n].pc = "forEach",
                            !.calls[n].branches = Tail(call.branches),
                            !.calls[n].combinedProps =
                                MergeProps(call.combinedProps, combine.returned.props)]
    /\ UNCHANGED << mode, world, toggle, resolution, loader, rootSel, request, messages,
                    panel, webview, phase, stack, retval, cache, defAcc, defMap, written,
                    entered, loaded, refLog, nodeLog >>

(***************************************************************************)
(* Specification                                                           *)
(***************************************************************************)
Init ==
    /\ mode \in {"multi", "single"}
    /\ world \in Worlds
    /\ rootSel \in Selections(world)
    /\ request \in Requests(world)
    /\ phase = "init"
    /\ stack = <<>>
    /\ retval = Null
    /\ cache = EmptyObj
    /\ defAcc = EmptyObj
    /\ defMap = EmptyObj
    /\ written = EmptyObj
    /\ messages = {}
    /\ panel = ClosedPanel
    /\ webview = InitialWebview
    /\ resolution = NoResolution
    /\ loader = NoLoad
    /\ toggle = NoToggle
    /\ entered = EmptyObj
    /\ loaded = {}
    /\ refLog = {}
    /\ nodeLog = {}
    /\ combine = NoCombine

Next ==
    \/ MGenerateMask
    \/ MProcessSchema
    \/ MEnter
    \/ MRef
    \/ MRefReturn
    \/ MProps
    \/ MPropReturn
    \/ MItems
    \/ MItemsReturn
    \/ MFinish
    \/ MWriteOutputs
    \/ SGenerateMask
    \/ SProcessSchema
    \/ SEnter
    \/ SRef
    \/ SRefReturn
    \/ SBasic
    \/ SProps
    \/ SPropReturn
    \/ SItems
    \/ SItemsReturn
    \/ SComposition
    \/ SCompositionReturn
    \/ SFinish
    \/ SWriteOutputs
    \/ CreateOrShow
    \/ WebviewEffect
    \/ OnReady
    \/ HandleMessage

Spec == Init /\ [][Next]_vars

\* the editor with further files opened in the panel that exists
EditorNext ==
    \/ Next
    \/ ShowInExistingPanel
    \/ PayloadGenerated

EditorSpec == Init /\ [][EditorNext]_vars

\* the calls of resolveRefUri on their own: every reference string against every
\* identifier, the identifier also missing
ResolveInit ==
    /\ mode = "multi"
    /\ world = 1
    /\ rootSel = SelTrue
    /\ request = Request(TRUE, TRUE, maskSuffix, <<OutDir>>)
    /\ phase = "resolve"
    /\ stack = <<>>
    /\ retval = Null
    /\ cache = EmptyObj
    /\ defAcc = EmptyObj
    /\ defMap = EmptyObj
    /\ written = EmptyObj
    /\ messages = {}
    /\ panel = ClosedPanel
    /\ webview = InitialWebview
    /\ entered = EmptyObj
    /\ loaded = {}
    /\ refLog = {}
    /\ nodeLog = {}
    /\ combine = NoCombine
    /\ loader = NoLoad
    /\ toggle = NoToggle
    /\ \E ref \in RefStrings, hasId \in BOOLEAN, currentId \in CurrentIds :
          resolution = [NoResolution EXCEPT !.ref = ref, !.hasId = hasId,
                                            !.currentId = currentId]

ResolveNext ==
    \/ ResolveRefUriPrefixed
    \/ ResolveRefUri

ResolveSpec == ResolveInit /\ [][ResolveNext]_vars

\* the calls of generatePayload on their own: every file system of a load and
\* every document a load is started on
LoadInit ==
    /\ mode = "multi"
    /\ world = 1
    /\ rootSel = SelTrue
    /\ request = Request(TRUE, TRUE, maskSuffix, <<OutDir>>)
    /\ phase = "load"
    /\ stack = <<>>
    /\ retval = Null
    /\ cache = EmptyObj
    /\ defAcc = EmptyObj
    /\ defMap = EmptyObj
    /\ written = EmptyObj
    /\ messages = {}
    /\ panel = ClosedPanel
    /\ webview = InitialWebview
    /\ entered = EmptyObj
    /\ loaded = {}
    /\ refLog = {}
    /\ nodeLog = {}
    /\ combine = NoCombine
    /\ resolution = NoResolution
    /\ toggle = NoToggle
    /\ \E fs \in LoadFileSystems, main \in LoadMains :
          loader = [NoLoad EXCEPT !.fs = fs, !.main = main]

LoadNext ==
    \/ GeneratePayload
    \/ ProcessSchemaFile
    \/ FindAndProcessRefs
    \/ ReturnPayload

LoadSpec == LoadInit /\ [][LoadNext]_vars

\* the toggles of the check boxes on their own, from an undefined selection
ToggleInit ==
    /\ mode = "multi"
    /\ world = 1
    /\ rootSel = SelTrue
    /\ request = Request(TRUE, TRUE, maskSuffix, <<OutDir>>)
    /\ phase = "toggle"
    /\ stack = <<>>
    /\ retval = Null
    /\ cache = EmptyObj
    /\ defAcc = EmptyObj
    /\ defMap = EmptyObj
    /\ written = EmptyObj
    /\ messages = {}
    /\ panel = ClosedPanel
    /\ webview = InitialWebview
    /\ entered = EmptyObj
    /\ loaded = {}
    /\ refLog = {}
    /\ nodeLog = {}
    /\ combine = NoCombine
    /\ resolution = NoResolution
    /\ loader = NoLoad
    /\ \E version \in Versions : toggle = [NoToggle EXCEPT !.version = version]

ToggleNext ==
    \/ HandleToggle
    \/ HandleRefTargetToggle
    \/ HandleRefTargetToggleObject

ToggleSpec == ToggleInit /\ [][ToggleNext]_vars

\* setDeepValue on its own: the selection trees, paths and values it is called with
SetAtLeaves == {SelUndef, SelTrue}

SetAtTrees ==
    ({SelUndef, SelTrue}
     \cup {Detail(Props(Detail(Pick({"a", "r", "l"}, [a |-> a, r |-> r, l |-> l])))) :
            a \in SetAtLeaves,
            r \in SetAtLeaves \cup {Detail(RTS(SelTrue)),
                                    Detail(RTS(Detail(Props(Detail([x |-> SelTrue])))))},
            l \in SetAtLeaves \cup {Detail(Items(SelTrue)),
                                    Detail(Items(Detail(Props(Detail([k |-> SelTrue])))))}})
    \ {Detail(Props(Detail(EmptyObj)))}

SetAtPaths ==
    {<<>>, <<"properties", "a">>, <<"properties", "r">>,
     <<"properties", "r", "$refTargetSelection">>,
     <<"properties", "r", "$refTargetSelection", "properties", "x">>,
     <<"properties", "l">>, <<"properties", "l", "items">>,
     <<"properties", "l", "items", "properties", "k">>}

SetAtValues == {SelUndef, SelTrue, Detail(RTS(SelTrue))}

\* schemaUtils.ts 213-235: one call setDeepValue(obj, path, value)
SetAt ==
    /\ phase = "setAt" /\ toggle.toggled = "none"
    /\ LET stored == Store(<<>>, toggle.selectionState)
       IN  toggle' = handleToggle("setDeepValue", stored, toggle.path,
                                  Store(stored.heap, toggle.newValue))
    /\ UNCHANGED << mode, world, combine, resolution, loader, rootSel, request, messages, panel,
                    webview, phase, stack, retval, cache, defAcc, defMap, written, entered,
                    loaded, refLog, nodeLog >>

SetAtInit ==
    /\ mode = "multi"
    /\ world = 1
    /\ rootSel = SelTrue
    /\ request = Request(TRUE, TRUE, maskSuffix, <<OutDir>>)
    /\ phase = "setAt"
    /\ stack = <<>>
    /\ retval = Null
    /\ cache = EmptyObj
    /\ defAcc = EmptyObj
    /\ defMap = EmptyObj
    /\ written = EmptyObj
    /\ messages = {}
    /\ panel = ClosedPanel
    /\ webview = InitialWebview
    /\ entered = EmptyObj
    /\ loaded = {}
    /\ refLog = {}
    /\ nodeLog = {}
    /\ combine = NoCombine
    /\ resolution = NoResolution
    /\ loader = NoLoad
    /\ \E obj \in SetAtTrees, path \in SetAtPaths, value \in SetAtValues :
          toggle = [NoToggle EXCEPT !.selectionState = obj, !.path = path, !.newValue = value]

SetAtNext == SetAt

SetAtSpec == SetAtInit /\ [][SetAtNext]_vars

\* getCombinedProperties on the root of a document of a schema map, as
\* SchemaNode calls it: with a new visitedRefs
CombineInit ==
    /\ mode = "multi"
    /\ world = 1
    /\ rootSel = SelTrue
    /\ request = Request(TRUE, TRUE, maskSuffix, <<OutDir>>)
    /\ phase = "combine"
    /\ stack = <<>>
    /\ retval = Null
    /\ cache = EmptyObj
    /\ defAcc = EmptyObj
    /\ defMap = EmptyObj
    /\ written = EmptyObj
    /\ messages = {}
    /\ panel = ClosedPanel
    /\ webview = InitialWebview
    /\ entered = EmptyObj
    /\ loaded = {}
    /\ refLog = {}
    /\ nodeLog = {}
    /\ resolution = NoResolution
    /\ loader = NoLoad
    /\ toggle = NoToggle
    /\ \E allSchemas \in SchemaMaps, root \in {CMain, CA, CB, CAddr} :
          combine = [NoCombine EXCEPT
                       !.allSchemas = allSchemas, !.root = root, !.stage = "running",
                       !.calls = << CombineCall(allSchemas[root], root, {}) >>]

CombineNext ==
    \/ GetCombinedProperties
    \/ ReturnReferenced
    \/ ProcessCompositionArray
    \/ MergeSubSchemaProps

CombineSpec == CombineInit /\ [][CombineNext]_vars

\* the call runs on the webview's single thread until it returns
CombineFairSpec == CombineSpec /\ WF_vars(CombineNext)

\* processSchema as the exported function: called on the main document with a
\* processedCache in which the document has no entry or the entry of a call
\* that has not returned
CallInit ==
    /\ mode \in {"multi", "single"}
    /\ world \in Worlds
    /\ rootSel \in Selections(world)
    /\ request \in Requests(world)
    /\ phase = "call"
    /\ stack = << NewFrame(FS(world)[MainPath(world)], rootSel, MainPath(world), TRUE) >>
    /\ retval = Null
    /\ cache \in {EmptyObj, Put(EmptyObj, MainPath(world), PROCESSING_MARKER)}
    /\ defAcc = EmptyObj
    /\ defMap = EmptyObj
    /\ written = EmptyObj
    /\ messages = {}
    /\ panel = ClosedPanel
    /\ webview = InitialWebview
    /\ entered = EmptyObj
    /\ loaded = {MainPath(world)}
    /\ refLog = {}
    /\ nodeLog = {}
    /\ combine = NoCombine
    /\ resolution = NoResolution
    /\ loader = NoLoad
    /\ toggle = NoToggle

CallNext ==
    \/ MEnter
    \/ MRef
    \/ MRefReturn
    \/ MProps
    \/ MPropReturn
    \/ MItems
    \/ MItemsReturn
    \/ MFinish
    \/ SEnter
    \/ SRef
    \/ SRefReturn
    \/ SBasic
    \/ SProps
    \/ SPropReturn
    \/ SItems
    \/ SItemsReturn
    \/ SComposition
    \/ SCompositionReturn
    \/ SFinish

CallSpec == CallInit /\ [][CallNext]_vars

\* the load runs on the extension host's single thread until it returns
LoadFairSpec == LoadSpec /\ WF_vars(LoadNext)

Finished == phase \in {"done", "rejected", "returned", "failed"}

TypeOK ==
    /\ mode \in {"multi", "single"}
    /\ phase \in {"init", "run", "call", "processed", "returned", "done", "rejected", "failed",
                 "resolve", "load", "toggle", "combine"}
    /\ Len(stack) <= MaxDepth

(***************************************************************************)
(* Properties                                                              *)
(***************************************************************************)
\* names of the output `properties` of a returned call
OutProps(n) ==
    IF IsObj(n.result) /\ "properties" \in DOMAIN n.result.o
    THEN DOMAIN n.result.o["properties"] ELSE {}

\* names of the output `required` of a returned call
OutRequired(n) ==
    IF IsObj(n.result) /\ "required" \in DOMAIN n.result.o
    THEN Range(n.result.o["required"]) ELSE {}

\* the output of a returned call carries a $ref
RefEmitted(n) == IsObj(n.result) /\ "$ref" \in DOMAIN n.result.o

\* the effective selection of property p under a parent selection
EffectiveSelection(sel, p) ==
    IF sel.t = "true" THEN TRUE
    ELSE /\ sel.t = "detail"
         /\ "properties" \in DOMAIN sel.d
         /\ p \in DOMAIN sel.d["properties"]
         /\ sel.d["properties"][p].t \in {"true", "detail"}

\* C1: in both strategies and for every selection and $ref graph (cycles
\* included) the body of each document is entered at most once, and the
\* recursion never nests deeper than the documents and their nodes allow
C1_Terminates ==
    /\ \A p \in DOMAIN entered : entered[p] <= 1
    /\ Len(stack) < MaxDepth

\* a run over a $ref cycle has found the target in progress and has finished
C1_Witness == phase = "done" /\ \E r \in refLog : r.got = "marker"

\* C2: whenever a selected $ref finds its target document InProgress, the
\* referencing node is emitted as a bare $ref and is not dropped
C2_CycleEmitsRef == \A r \in refLog : r.got = "marker" => r.emitted

\* C3: the output `properties` of a node without an emitted $ref holds p iff p is
\* declared in the original, p's effective selection is truthy and the recursion
\* on p returned content; only selected declared properties are recursed into
C3_PropertiesIff ==
    /\ \A n \in nodeLog :
          (n.body /\ ~RefEmitted(n)) =>
             /\ OutProps(n) = {p \in PropNames(n.node) :
                                  EffectiveSelection(n.sel, p) /\ p \in n.ok}
             /\ n.called \subseteq {p \in PropNames(n.node) : EffectiveSelection(n.sel, p)}
    /\ \A i \in 2..Len(stack) : Truthy(stack[i].sel)

\* a returned node kept one declared property and left another one out
C3_Witness ==
    \E n \in nodeLog :
       /\ n.body /\ OutProps(n) # {}
       /\ \E p \in PropNames(n.node) : p \notin OutProps(n) /\ p \notin n.called

\* C4: the output `required` is exactly the set of originally required names
\* that are keys of the output `properties`, and is absent when that set is empty
C4_RequiredSubset ==
    \A n \in nodeLog :
       n.body =>
          LET orig == IF "required" \in DOMAIN n.node THEN Range(n.node["required"]) ELSE {}
          IN  /\ OutRequired(n) = orig \cap OutProps(n)
              /\ (IsObj(n.result) /\ "required" \in DOMAIN n.result.o)
                    <=> (orig \cap OutProps(n) # {})

\* a returned node kept one required name and lost another with its property
C4_Witness ==
    \E n \in nodeLog :
       /\ n.body /\ OutRequired(n) # {}
       /\ \E p \in Range(n.node["required"]) : p \in PropNames(n.node) /\ p \notin OutProps(n)

Compound == {"properties", "items", "allOf", "anyOf", "oneOf"}

TargetSelectionOf(sel) ==
    IF sel.t = "detail" /\ "$refTargetSelection" \in DOMAIN sel.d
    THEN sel.d["$refTargetSelection"] ELSE SelTrue

\* C6: the target of a selected external $ref is processed with the node's
\* $refTargetSelection when the Detail carries one, with true otherwise
C6_TargetSelection ==
    \A i \in 2..Len(stack) :
       (stack[i].top /\ stack[i - 1].pc = "refret")
          => stack[i].sel = TargetSelectionOf(stack[i - 1].sel)

\* C7: a $ref node whose Detail carries $refTargetSelection: false emits no $ref
\* and its target is not processed
C7_FalsyTargetDropped ==
    \A r \in refLog :
       (r.sel.t = "detail" /\ "$refTargetSelection" \in DOMAIN r.sel.d
          /\ r.sel.d["$refTargetSelection"] = SelFalse)
       => ~r.emitted /\ r.got = "unselected"

\* where the multi-file write loop puts the masked output of a document
MaskedFileOf(p) ==
    LET out == getOutputPath(p)
        name == Last(out)
        ext == Extname(name)
    IN  DirnameAbs(out) \o << Basename(name, ext) \o MASK_SUFFIX \o ext >>

\* C8: in multi-file output every emitted $ref, resolved against the directory
\* of the referencing document's written file, is the path of the target's
\* written file
C8_RefsReachWrittenFiles ==
    (mode = "multi" /\ phase = "done") =>
       \A r \in refLog :
          r.emitted =>
             PathResolve(DirnameAbs(MaskedFileOf(r.doc)), r.ref) = MaskedFileOf(r.target)

\* C9: in single-file output every $ref to an external document is the same
\* #/definitions/<key>, the document is embedded once under that key and its
\* body is processed once
C9_EmbeddedOnce ==
    mode = "single" =>
       /\ \A p \in DOMAIN entered : entered[p] <= 1
       /\ \A r1, r2 \in refLog :
             (r1.emitted /\ r2.emitted /\ r1.target # <<>> /\ r1.target = r2.target)
                => /\ r1.ref = r2.ref
                   /\ (r1.got = "embedded" /\ r2.got = "embedded") => r1 = r2
       /\ Finished =>
             \A r \in refLog :
                (r.emitted /\ r.target # <<>>)
                   => /\ r.ref = LocalRef(generateDefinitionKey(r.target))
                      /\ generateDefinitionKey(r.target) \in DOMAIN defAcc

\* two nodes reference one document, which is embedded under one key
C9_Witness ==
    /\ mode = "single" /\ phase = "done"
    /\ NKeys(defAcc) = 1
    /\ \E r1, r2 \in refLog :
          /\ r1 # r2 /\ r1.target = r2.target
          /\ r1.got = "embedded" /\ r2.got = "planned" /\ r1.doc = r2.doc

\* C10: a selected node whose $ref is a same-document fragment keeps the $ref
\* unchanged in its output
C10_FragmentRefKept ==
    \A n \in nodeLog :
       (n.body /\ "$ref" \in DOMAIN n.node /\ StartsWithChar(n.node["$ref"], "#"))
          => IsObj(n.result) /\ "$ref" \in DOMAIN n.result.o
             /\ n.result.o["$ref"] = n.node["$ref"]

\* the content results among the results of the branches, in their order
Collected(rs) ==
    LET HasContent(r) == IsContent(r)
        c == SelectSeq(rs, HasContent)
    IN  [i \in 1..Len(c) |-> c[i].o]

\* C11: for each of allOf/anyOf/oneOf of a processed node without $ref every
\* branch is processed with the parent's selection, the output array is the
\* sequence of the branch results that are content, in the original order, and
\* the keyword is absent when no branch yields content
C11_CompositionCollected ==
    /\ \A n \in nodeLog :
          (n.body /\ "$ref" \notin DOMAIN n.node) =>
             \A kw \in Range(CompositionKeywords) \cap DOMAIN n.node :
                /\ kw \in DOMAIN n.brs
                /\ Len(n.brs[kw]) = Len(n.node[kw])
                /\ LET c == Collected(n.brs[kw]) IN
                   IF c = <<>>
                   THEN ~(IsObj(n.result) /\ kw \in DOMAIN n.result.o)
                   ELSE IsObj(n.result) /\ kw \in DOMAIN n.result.o /\ n.result.o[kw] = c
    /\ \A i \in 2..Len(stack) :
          stack[i - 1].pc = "compret" =>
             /\ stack[i].sel = stack[i - 1].sel
             /\ stack[i].node = stack[i - 1].node[CompositionKeywords[stack[i - 1].kw]][stack[i - 1].i]

\* names of the properties a branch output contributes, directly or through the
\* definition its $ref points to
PropsInside(o) ==
    (IF "properties" \in DOMAIN o THEN DOMAIN o["properties"] ELSE {})
    \cup UNION { IF "properties" \in DOMAIN defAcc[key]
                 THEN DOMAIN defAcc[key]["properties"] ELSE {} :
                 key \in {k \in DOMAIN defAcc :
                             "$ref" \in DOMAIN o /\ o["$ref"] = LocalRef(k)} }

\* C12: every property a composition branch of a node contributes, also through a
\* $ref to another document, is selected by the node's own selection
C12_BranchPropsSelected ==
    \A n \in nodeLog :
       \A kw \in DOMAIN n.brs :
          \A i \in DOMAIN n.brs[kw] :
             IsContent(n.brs[kw][i]) =>
                \A p \in PropsInside(n.brs[kw][i].o) : EffectiveSelection(n.sel, p)

\* C13: a call returns null only when its output draft holds no $ref, no
\* properties, no items and no composition array, and a returned object is
\* never empty
C13_NullIffNoContent ==
    \A n \in nodeLog :
       /\ IsObj(n.result) => NKeys(n.result.o) > 0
       /\ n.result.k = "null" => DOMAIN n.draft \cap ({"$ref"} \cup Compound) = {}

\* the node carries a $ref to another document that cannot be loaded
RefTargetMissing(n) ==
    /\ "$ref" \in DOMAIN n.node
    /\ ~StartsWithChar(n.node["$ref"], "#")
    /\ ~Exists(world, resolveRefPath(n.node["$ref"], n.doc))

\* C14: a selected $ref whose target cannot be loaded does not abort the run and
\* emits no $ref; no planned key, definition or cache entry remains for the
\* target; the properties next to the failing $ref are processed and produced
\* as the selection says; no cache entry stays InProgress once processing ends,
\* and a run that ends with content and without a write error has written it
C14_FailedRefContained ==
    /\ \A r \in refLog :
          (r.target # <<>> /\ ~Exists(world, r.target)) =>
             /\ ~r.emitted
             /\ phase # "rejected"
             /\ r.target \notin DOMAIN defMap
             /\ generateDefinitionKey(r.target) \notin DOMAIN defAcc
             /\ r.target \notin DOMAIN cache
    /\ \A n \in nodeLog :
          (n.body /\ RefTargetMissing(n)) =>
             /\ ~RefEmitted(n)
             /\ n.called = {p \in PropNames(n.node) : EffectiveSelection(n.sel, p)}
             /\ OutProps(n) = n.called \cap n.ok
    /\ phase \in {"processed", "returned", "done"} =>
          \A p \in DOMAIN cache : cache[p].k # "marker"
    /\ (phase = "done" /\ IsNonEmptyContent(retval) /\ "error" \notin messages) =>
          DOMAIN written # {}

\* a run has ended and has written a main document that holds, next to a
\* property of another document, the inline property of a node whose $ref
\* target is missing
C14_Witness ==
    /\ phase = "done"
    /\ \E n \in nodeLog : n.body /\ RefTargetMissing(n) /\ OutProps(n) = {"k"}
    /\ \E q \in DOMAIN written :
          /\ "properties" \in DOMAIN written[q]
          /\ {"gone", "home"} \subseteq DOMAIN written[q]["properties"]

\* the payload lacks mainSchemaId, selection or a non-empty maskSuffix
LacksRootField ==
    \/ ~request.mainSchemaId
    \/ rootSel.t = "undef"
    \/ ~request.hasSuffix
    \/ request.maskSuffix = <<>>

\* C15: a payload that lacks mainSchemaId, selection or a non-empty maskSuffix is
\* rejected by generateMask before anything is loaded, processed or written; a
\* payload with all three whose selection is true or a Detail is not rejected
C15_InvalidPayloadRejected ==
    /\ LacksRootField => phase \in {"init", "rejected", "call", "returned"}
    /\ phase = "rejected" =>
          loaded = {} /\ nodeLog = {} /\ stack = <<>> /\ written = EmptyObj
    /\ (~LacksRootField /\ rootSel.t \in {"true", "detail"}) => phase # "rejected"

\* C16: a run whose main document gave null writes nothing and ends with the
\* "nothing selected" warning alone; a run that ends shows that warning exactly
\* when the main document gave null
C16_NothingSelected ==
    phase = "done" =>
       /\ retval.k = "null" => written = EmptyObj /\ messages = {"nothing selected"}
       /\ "nothing selected" \in messages <=> retval.k = "null"

\* the file is a selection sidecar
IsSidecar(q) == "selection" \in DOMAIN written[q]

\* C17: a written document that carries x-mask-selection = F is the masked main
\* document, F is <maskedBaseName>.config.json, and the sidecar F holding the
\* selection is on disk in the same directory; no embedded definition carries
\* x-mask-selection
C17_SidecarWritten ==
    /\ \A q \in DOMAIN written :
          "x-mask-selection" \in DOMAIN written[q] =>
             LET F == written[q]["x-mask-selection"]
                 name == Last(q)
                 main == Last(MainPath(world))
             IN  /\ Basename(main, Extname(main)) = SubSeq(name, 1, Len(Basename(main, Extname(main))))
                 /\ F = Basename(name, Extname(name)) \o SELECTION_FILE_SUFFIX
                 /\ (Front(q) \o <<F>>) \in DOMAIN written
                 /\ IsSidecar(Front(q) \o <<F>>)
                 /\ written[Front(q) \o <<F>>].selection = rootSel
    /\ \A key \in DOMAIN defAcc : "x-mask-selection" \notin DOMAIN defAcc[key]

\* <output directory>/<relative directory>/<originalBaseName><maskSuffix><originalExt>
ExpectedMaskedPath(p) ==
    LET name == Last(p)
        ext == Extname(name)
    IN  baseOutputDir \o SubSeq(p, Len(baseInputDir) + 1, Len(p) - 1)
           \o << Basename(name, ext) \o request.maskSuffix \o ext >>

\* C18: every masked schema file a run has written lies at the output directory,
\* the relative directory of its original and the original's base name, the
\* payload's mask suffix and the original's extension; the main document of a
\* run that reports success is written there
C18_MaskedFilePaths ==
    (phase = "done" /\ request.hasSuffix /\ Trim(request.maskSuffix) # <<>>) =>
       /\ \A q \in DOMAIN written :
             ~IsSidecar(q) => \E p \in DOMAIN FS(world) : q = ExpectedMaskedPath(p)
       /\ "generated" \in messages => ExpectedMaskedPath(MainPath(world)) \in DOMAIN written

\* the editor has nothing left to do: no message in flight, the effect has run
\* with the current base path
EditorQuiescent ==
    /\ panel.stage = "created" /\ webview.mounted
    /\ panel.ready = 0 /\ panel.inbox = <<>> /\ panel.pending = <<>>
    /\ webview.effectBasePath = webview.mainSchemaBasePath

\* the opened file is the stamped main masked file of a successful run
OpenedMainMask ==
    /\ messages = {"generated"}
    /\ panel.stage = "created"
    /\ "x-mask-selection" \in DOMAIN written[panel.filePath]

\* C19: after a successful generation with selection S and output directory D,
\* opening the generated main masked file loads the structure of the original
\* schema and, once the payload and the initial mask state have been handled by
\* the webview, the webview's selection is S and its output directory is D
C19_RoundTrip ==
    (OpenedMainMask /\ EditorQuiescent) =>
       /\ panel.payloadPath = MainPath(world)
       /\ webview.mainSchemaBasePath = DirnameAbs(MainPath(world))
       /\ {"dataModelPayload", "setInitialMaskState"} \subseteq webview.seen
       /\ webview.selectionState = rootSel
       /\ webview.outputDir = request.outputDir

\* C20: a call of resolveRefUri with a reference that does not start with '.'
\* returns the reference unchanged, whatever the containing document's identifier
C20_DirectRefUnchanged ==
    (resolution.called # "no" /\ ~StartsWith(resolution.ref, Dot)) =>
       resolution.result = resolution.ref

\* the reference operator: the segments of the directory part of the id followed
\* by those of the reference are read in order; empty and '.' segments are
\* dropped, '..' pops the output unless it is empty or ends in '..'
RECURSIVE RefOperator(_, _)
RefOperator(segs, out) ==
    IF segs = <<>> THEN out
    ELSE RefOperator(Tail(segs),
            CASE Head(segs) \in {<<>>, Dot} -> out
              [] Head(segs) = DotDot ->
                    IF out = <<>> \/ Last(out) = DotDot THEN Append(out, DotDot)
                    ELSE Front(out)
              [] OTHER -> Append(out, Head(segs)))

ResolvedBy(ref, currentId) ==
    JoinSlash(RefOperator(Front(SplitSlash(currentId, <<>>, <<>>))
                             \o SplitSlash(ref, <<>>, <<>>), <<>>))

\* a call has been made with this reference and this id
Resolved(ref, currentId) ==
    /\ resolution.called # "no" /\ resolution.hasId
    /\ resolution.ref = ref /\ resolution.currentId = currentId

\* C21: for a reference that starts with '.', resolveRefUri gives what the
\* reference operator gives; '../x.json' from 'a/b.json' is 'x.json', from
\* 'b.json' it is '../x.json', and '../common/address.json' from
\* 'schemas/pet/Pet.json' is 'schemas/common/address.json'
C21_RelativeRefResolved ==
    /\ (resolution.called # "no" /\ resolution.hasId /\ StartsWith(resolution.ref, Dot)) =>
          resolution.result = ResolvedBy(resolution.ref, resolution.currentId)
    /\ Resolved(<<".", ".", "/", "x", ".", "j", "s", "o", "n">>, <<"a", "/", "b", ".", "j", "s", "o", "n">>) =>
          resolution.result = <<"x", ".", "j", "s", "o", "n">>
    /\ Resolved(<<".", ".", "/", "x", ".", "j", "s", "o", "n">>, <<"b", ".", "j", "s", "o", "n">>) =>
          resolution.result = <<".", ".", "/", "x", ".", "j", "s", "o", "n">>
    /\ Resolved(<<".", ".", "/", "c", "o", "m", "m", "o", "n", "/", "a", "d", "d", "r", "e", "s", "s", ".", "j", "s", "o", "n">>, <<"s", "c", "h", "e", "m", "a", "s", "/", "p", "e", "t", "/", "P", "e", "t", ".", "j", "s", "o", "n">>) =>
          resolution.result = <<"s", "c", "h", "e", "m", "a", "s", "/", "c", "o", "m", "m", "o", "n", "/", "a", "d", "d", "r", "e", "s", "s", ".", "j", "s", "o", "n">>

\* the keywords under which the claim looks for references
ListedMapKeywords == << "properties", "definitions" >>

\* the $ref values found in a value, descending through the given keywords
RECURSIVE RefsUnder(_, _)
RefsUnder(v, mapKeywords) ==
    IF ~IsSchemaObject(v) THEN {}
    ELSE LET below == ChildrenOf("map", mapKeywords, v) \o ItemsOf(v)
                         \o ChildrenOf("array", ArrayKeywords, v)
                         \o ChildrenOf("single", SingleKeywords, v)
         IN  (IF "$ref" \in DOMAIN v THEN {v["$ref"]} ELSE {})
                \cup UNION {RefsUnder(below[i], mapKeywords) : i \in DOMAIN below}

LoadsWell(p) == p \in DOMAIN loader.fs.files /\ p \notin loader.fs.bad

\* the paths reachable from the paths in S over documents that load
RECURSIVE ReachableFrom(_, _)
ReachableFrom(S, mapKeywords) ==
    LET next == S \cup UNION {{resolveRefPath(r, p) :
                                  r \in RefsUnder(loader.fs.files[p], mapKeywords)} :
                              p \in {q \in S : LoadsWell(q)}}
    IN  IF next = S THEN S ELSE ReachableFrom(next, mapKeywords)

ExpectedKeys(mapKeywords) ==
    {relativeId(loader.basePath, p) :
        p \in {q \in ReachableFrom({loader.main}, mapKeywords) : LoadsWell(q)}}

\* C22 as stated: the keys of the returned map are exactly the documents that
\* load and are reachable from the main document over $refs under properties,
\* items, allOf/anyOf/oneOf, not, additionalProperties/additionalItems and
\* definitions
C22_MapIsReachable ==
    loader.stage = "returned" =>
       DOMAIN loader.payload.schemas = ExpectedKeys(ListedMapKeywords)

\* C22 amended: the keys of the returned map are exactly the documents that load
\* and are reachable from the main document over $refs under the keywords of the
\* claim and under patternProperties; a document that is missing or does not
\* parse is absent and every load returns with the other documents present
C22_MapIsReachableWithPatterns ==
    /\ loader.stage = "returned" =>
          /\ DOMAIN loader.payload.schemas = ExpectedKeys(<< "properties", "patternProperties", "definitions" >>)
          /\ \A key \in DOMAIN loader.payload.schemas :
                \E p \in DOMAIN loader.fs.files :
                   /\ key = relativeId(loader.basePath, p)
                   /\ loader.payload.schemas[key] = loader.fs.files[p]
    /\ \A p \in loader.acc.processedPaths :
          ~LoadsWell(p) => relativeId(loader.basePath, p) \notin DOMAIN loader.acc.schemasMap

\* a load has returned after it met the file that does not parse and the file
\* that is missing, with the main document and A.json in the map
C22_Witness ==
    /\ loader.stage = "returned"
    /\ LBad \in loader.acc.processedPaths
    /\ <<InDir, MissingJson>> \in loader.acc.processedPaths
    /\ {relativeId(loader.basePath, LMain), relativeId(loader.basePath, LA)}
          \subseteq DOMAIN loader.payload.schemas

NoDuplicates(s) == \A i, j \in DOMAIN s : i # j => s[i] # s[j]

LoadedOnce ==
    /\ NoDuplicates(loader.acc.loads)
    /\ NoDuplicates(loader.acc.scans)
    /\ Range(loader.acc.loads) = loader.acc.processedPaths
    /\ Range(loader.acc.scans) \subseteq Range(loader.acc.loads)

\* C23: during a load every absolute path is handed to loadSchemaFile at most
\* once and its document scanned at most once, however often it is referenced
\* and also in cycles and self references; and every load returns
C23_LoadedOnceAndReturns ==
    []LoadedOnce /\ <>(loader.stage = "returned")

\* a load has returned in which a document that references itself and a document
\* that is referenced from two documents were loaded
C23_Witness ==
    /\ loader.stage = "returned"
    /\ \E f \in loader.acc.followed : f.from = f.to /\ f.to \in Range(loader.acc.scans)
    /\ \E f, g \in loader.acc.followed :
          f.from # g.from /\ f.to = g.to /\ f.to \in Range(loader.acc.scans)

\* C24: for every $ref of a loaded document that the loader followed to a
\* loaded document, resolveRefUri of the $ref string and the key of the
\* containing document is the key of the target document
C24_LoaderAndResolverAgree ==
    \A f \in loader.acc.followed :
       f.to \in Range(loader.acc.scans) =>
          resolveRefUri(JoinSlash(f.ref), TRUE, relativeId(loader.basePath, f.from))
             = relativeId(loader.basePath, f.to)

\* an object without keys somewhere in a selection tree
RECURSIVE HasEmptyDetail(_)
HasEmptyDetail(sel) ==
    /\ sel.t = "detail"
    /\ \/ DOMAIN sel.d = {}
       \/ \E k \in DOMAIN sel.d : HasEmptyDetail(sel.d[k])

\* the value under a path of a selection tree, undefined where there is none
RECURSIVE SubTree(_, _)
SubTree(sel, path) ==
    IF path = <<>> THEN sel ELSE SubTree(Below(sel, Head(path)), Tail(path))

\* C25: from an undefined selection, after any sequence of toggles of the
\* node and reference-target check boxes the selection tree holds no object
\* without keys, and after a toggle that sets undefined at a path every
\* ancestor of the path is gone or has at least one key.
C25_NoEmptyDetail ==
    /\ ~HasEmptyDetail(toggle.selectionState)
    /\ (toggle.toggled # "none" /\ toggle.newValue = SelUndef) =>
          \A i \in 0..(Len(toggle.path) - 1) :
             LET ancestor == SubTree(toggle.selectionState, SubSeq(toggle.path, 1, i))
             IN  ancestor.t = "detail" => DOMAIN ancestor.d # {}

\* every ancestor of the path that exists in the tree is an object
AncestorsAreDetails(sel, path) ==
    \A i \in 0..(Len(path) - 1) : SubTree(sel, SubSeq(path, 1, i)).t \in {"detail", "undef"}

\* the paths of the subtrees that hang off the path: a key other than the
\* path's next one in an object the path goes through
OffPath(sel, path) ==
    UNION {LET ancestor == SubTree(sel, SubSeq(path, 1, i))
           IN  IF ancestor.t = "detail"
               THEN {SubSeq(path, 1, i) \o << k >> : k \in DOMAIN ancestor.d \ {path[i + 1]}}
               ELSE {} : i \in 0..(Len(path) - 1)}

\* C26: setDeepValue is copy-on-write: once it has returned, the tree below
\* its input is what it was before the call; with an empty path the result is
\* the value; and when every existing ancestor along the path is an object,
\* every subtree of the input that is not on the path is the same in the result.
C26_CopyOnWrite ==
    toggle.toggled # "none" =>
       /\ toggle.prevStateAfter = toggle.prevState
       /\ toggle.path = <<>> => toggle.selectionState = toggle.newValue
       /\ AncestorsAreDetails(toggle.prevState, toggle.path) =>
             \A q \in OffPath(toggle.prevState, toggle.path) :
                SubTree(toggle.selectionState, q) = SubTree(toggle.prevState, q)

\* C26 witness: a toggle two or more keys deep has changed a selection in
\* which an object hangs off the path
C26_Witness ==
    /\ toggle.toggled # "none"
    /\ Len(toggle.path) >= 2
    /\ toggle.selectionState # toggle.prevState
    /\ AncestorsAreDetails(toggle.prevState, toggle.path)
    /\ \E q \in OffPath(toggle.prevState, toggle.path) :
          SubTree(toggle.prevState, q).t = "detail"

\* whenever a call of getCombinedProperties returns, visitedRefs is what it
\* was when the call was entered, and a $ref is answered with {} as a cycle
\* only when a call on the stack is waiting for that very target
VisitingRestored ==
    /\ combine.entry = combine.exit
    /\ \A c \in combine.cut : c.resolvedId \in c.awaited

\* C27: getCombinedProperties returns for every schema map, cyclic $ref
\* chains and self-references included; every call leaves visitedRefs as it
\* found it, so that a document reached a second time along another branch is
\* resolved again and only a target that is being resolved is cut off.
C27_TerminatesAndRestores == []VisitingRestored /\ <>(combine.stage = "returned")

\* C27 witness: a call has returned in which a cycle was cut off and a
\* document was resolved twice
C27_Witness ==
    /\ combine.stage = "returned"
    /\ combine.cut # {}
    /\ \E i, j \in DOMAIN combine.recursed : i < j /\ combine.recursed[i] = combine.recursed[j]

\* the second map laid over the first
Override(base, over) ==
    [name \in DOMAIN base \cup DOMAIN over |->
        IF name \in DOMAIN over THEN over[name] ELSE base[name]]

\* the combined properties as the specification defines them: for a $ref the
\* ones of the target, none when the target is being resolved or is not in the
\* map; else the own properties overridden by every allOf branch in order,
\* then every anyOf branch, then every oneOf branch, under the same document id
RECURSIVE combinedProperties(_, _, _, _)
RECURSIVE OverriddenBy(_, _, _, _, _)
OverriddenBy(acc, members, docId, schemaMap, visiting) ==
    IF members = <<>> THEN acc
    ELSE OverriddenBy(Override(acc, combinedProperties(Head(members), docId, schemaMap,
                                                       visiting)),
                      Tail(members), docId, schemaMap, visiting)

combinedProperties(schemaNode, docId, schemaMap, visiting) ==
    IF ~IsSchemaObject(schemaNode) THEN EmptyObj
    ELSE IF "$ref" \in DOMAIN schemaNode
    THEN LET target == resolveRefUri(JoinSlash(schemaNode["$ref"]), TRUE, docId)
         IN  IF target \in visiting \/ target \notin DOMAIN schemaMap THEN EmptyObj
             ELSE combinedProperties(schemaMap[target], target, schemaMap,
                                     visiting \cup {target})
    ELSE OverriddenBy(OverriddenBy(OverriddenBy(OwnProperties(schemaNode),
                                                BranchesOf(schemaNode, "allOf"),
                                                docId, schemaMap, visiting),
                                   BranchesOf(schemaNode, "anyOf"),
                                   docId, schemaMap, visiting),
                      BranchesOf(schemaNode, "oneOf"), docId, schemaMap, visiting)

\* C28: what getCombinedProperties returns: for a node without $ref its own
\* properties overridden by the combined properties of each allOf branch in
\* order, then each anyOf branch, then each oneOf branch, every branch under the
\* same document id, the last value winning; for a node with $ref the combined
\* properties of the target only.
C28_CombinedProperties ==
    combine.stage = "returned" =>
       combine.result = combinedProperties(combine.allSchemas[combine.root], combine.root,
                                           combine.allSchemas, {})

\* C28 witness: the call has returned for a document with own properties and
\* branches under all three keywords that declare the same names: each name has
\* the value of the last branch that declares it
C28_Witness ==
    /\ combine.stage = "returned"
    /\ combine.root = CMain
    /\ {"allOf", "anyOf", "oneOf"} \subseteq DOMAIN combine.allSchemas[CMain]
    /\ combine.result = [o |-> CV("own"), p |-> CV("all2"), q |-> CV("one"), r |-> CV("any")]

\* a top-level call of processSchema is about to start on a document whose
\* cache entry is the sentinel
EntersInProgress ==
    /\ Running
    /\ Top.pc = "enter" /\ Top.top
    /\ Top.doc \in DOMAIN cache
    /\ cache[Top.doc] = PROCESSING_MARKER

\* C29: a top-level call of processSchema on a document whose cache entry
\* is the sentinel returns the cycle marker in its first step: no call is put on
\* the stack, no file is loaded, and the cache, the definitions accumulator and
\* the planned keys stay as they are.
C29_InProgressReturnsMarker ==
    [][EntersInProgress =>
          /\ stack' = Front(stack)
          /\ retval' = PROCESSING_MARKER
          /\ loaded' = loaded
          /\ cache' = cache
          /\ defAcc' = defAcc
          /\ defMap' = defMap]_vars

\* C29 witness: the call on the main document has returned the marker from
\* a cache that held the sentinel for it, without a body
C29_Witness ==
    /\ phase = "returned"
    /\ retval = PROCESSING_MARKER
    /\ \E e \in nodeLog : e.top /\ ~e.body /\ e.doc = MainPath(world)
    /\ cache = Put(EmptyObj, MainPath(world), PROCESSING_MARKER)
    /\ entered = EmptyObj

\* the cache holds the sentinel for the document
HoldsSentinel(c, doc) == doc \in DOMAIN c /\ c[doc] = PROCESSING_MARKER

\* C30: when a top-level call of processSchema that placed the sentinel for
\* its document returns, on whichever path, the entry of the document is a
\* result or is gone; and once the root call of a mask generation has returned
\* no entry of the cache is the sentinel.
C30_SentinelReplaced ==
    /\ [][(Running /\ Top.top /\ ~EntersInProgress /\ stack' = Front(stack))
             => ~HoldsSentinel(cache', Top.doc)]_vars
    /\ [](phase \in {"processed", "returned", "done", "failed"}
             => \A doc \in DOMAIN cache : ~HoldsSentinel(cache, doc))

\* C30 witness: the root call of a mask generation has returned after
\* top-level calls on two or more documents, one of which met the sentinel of a
\* document in progress
C30_Witness ==
    /\ phase = "processed"
    /\ Cardinality(DOMAIN entered) >= 2
    /\ \E r \in refLog : r.got = "marker"
    /\ \A doc \in DOMAIN entered : doc \in DOMAIN cache /\ cache[doc] # PROCESSING_MARKER

\* the cache holds a final result for the document: a schema or null
IsDone(c, doc) == doc \in DOMAIN c /\ c[doc] # PROCESSING_MARKER

\* C31: within one mask generation a cache entry that holds a final result is
\* never set back to the sentinel, removed or given another result; a lookup of
\* a document with a final result yields that result; and the body of
\* processSchema runs at most once for each document.
C31_CacheMonotone ==
    /\ [][\A doc \in DOMAIN cache :
             IsDone(cache, doc) => (doc \in DOMAIN cache' /\ cache'[doc] = cache[doc])]_vars
    /\ []((Running /\ Top.pc = "refret" /\ IsDone(cache, Top.refAbs))
             => retval = cache[Top.refAbs])
    /\ [](\A doc \in DOMAIN entered : entered[doc] <= 1)

\* C31 witness: a run has finished in which a document with a final result was
\* looked up again by a second reference
C31_Witness ==
    /\ phase = "processed"
    /\ \E r1, r2 \in refLog :
          /\ r1.target = r2.target
          /\ r1.node # r2.node \/ r1.doc # r2.doc
          /\ IsDone(cache, r1.target)
          /\ r1.emitted /\ r2.emitted
          /\ r1.got # "marker" /\ r2.got # "marker"
          /\ Count(r1.target) = 1
    /\ mode = "multi"

\* the two caches agree on every document but the given one
SameButFor(c1, c2, doc) ==
    \A d \in (DOMAIN c1 \cup DOMAIN c2) \ {doc} :
       d \in DOMAIN c1 /\ d \in DOMAIN c2 /\ c1[d] = c2[d]

\* C32: a step of processSchema that changes the cache is a step of a
\* top-level call, changes the entry of that call's own document only, and
\* either places the entry (the call is being entered) or replaces the sentinel
\* the call placed; an inline call and a call that obtained the cycle marker of
\* another document change no entry of the cache.
C32_WritesOwnEntryOnly ==
    [][cache' # cache =>
          /\ Running
          /\ Top.top
          /\ SameButFor(cache, cache', Top.doc)
          /\ Top.pc = "enter" \/ HoldsSentinel(cache, Top.doc)]_vars

\* C32 witness: a top-level call has returned with a result to a caller
\* whose own document still holds its sentinel, a reference has obtained the
\* cycle marker, and an inline call has returned
C32_Witness ==
    /\ Running
    /\ HoldsSentinel(cache, Top.doc)
    /\ \E doc \in DOMAIN cache : doc # Top.doc /\ IsDone(cache, doc)
    /\ \E r \in refLog : r.got = "marker"
    /\ \E e \in nodeLog : ~e.top /\ e.body

\* C33: in single-file output a definition key stands for one target
\* document: two references that were given the same `#/definitions/<key>` have
\* the same target, and a definition once embedded is not replaced by other
\* content.
C33_OneDocumentPerKey ==
    /\ [](mode = "single" =>
             \A r1, r2 \in refLog :
                (/\ r1.emitted /\ r2.emitted
                 /\ r1.target # <<>> /\ r2.target # <<>>
                 /\ r1.ref = r2.ref) => r1.target = r2.target)
    /\ [][mode = "single" =>
             \A key \in DOMAIN defAcc :
                key \in DOMAIN defAcc' /\ defAcc'[key] = defAcc[key]]_vars

\* C34: for one file opened in the panel the extension generates the payload
\* once and the webview takes its schema map from a payload once.
C34_PayloadOnce == panel.reopened = 0 => (panel.generated <= 1 /\ webview.applied <= 1)

\* the selection a $ref node hands to its target, read from the node's selection
HandedSelection(sel) ==
    IF sel.t # "true" /\ "$refTargetSelection" \in DOMAIN sel.d
                      /\ Truthy(sel.d["$refTargetSelection"])
    THEN sel.d["$refTargetSelection"] ELSE SelTrue

\* the $ref nodes handled so far whose target is doc
RefNodesTo(doc) == {r \in refLog : r.target = doc /\ r.got # "unselected"}

\* the runs of the body of processSchema for the document doc
BodyRuns(doc) == {n \in nodeLog : n.doc = doc /\ n.top /\ n.body}

\* C35: the body of a referenced document runs for the first $ref node that
\* reaches it, with that node's target selection; a later $ref node to the
\* same document starts no run and changes no stored result, whatever its own
\* target selection is, and all of them get the one stored result.
C35_FirstVisitDecides ==
    /\ [][\A doc \in DOMAIN entered' :
             (Count(doc) < entered'[doc] /\ Len(stack) > 1) =>
                /\ Count(doc) = 0
                /\ stack[Len(stack) - 1].refAbs = doc
                /\ Top.sel = HandedSelection(stack[Len(stack) - 1].sel)
                /\ RefNodesTo(doc) = {}]_vars
    /\ [][\A doc \in DOMAIN cache :
             (Running /\ Top.pc \in {"ref", "refret"} /\ Top.refAbs = doc /\ IsDone(cache, doc))
                => /\ cache'[doc] = cache[doc]
                   /\ entered' = entered]_vars
    /\ [](phase = "done" =>
            \A doc \in DOMAIN cache : \A n \in BodyRuns(doc) :
               /\ cache[doc] = n.result
               /\ \A r \in RefNodesTo(doc) :
                     /\ r.got \in {"null", "obj"} => r.got = n.result.k
                     /\ r.got = "embedded" => IsNonEmptyContent(n.result))

\* two selected $ref nodes with different target selections reached one document
C35_Witness ==
    /\ phase = "done"
    /\ \E r1, r2 \in refLog :
          /\ r1.target = r2.target /\ r1.target # <<>>
          /\ r1.emitted /\ r2.emitted
          /\ HandedSelection(r1.sel) # HandedSelection(r2.sel)
          /\ BodyRuns(r1.target) # {}

\* the selection that holds the value under the path and nothing else
RECURSIVE OnlyBranch(_, _)
OnlyBranch(path, value) ==
    IF path = <<>> THEN value
    ELSE Detail([k \in {Head(path)} |-> OnlyBranch(Tail(path), value)])

\* C36: when a node on the path above the one being set holds true, after
\* setDeepValue that node is undefined if the value set is undefined, and
\* otherwise an object that holds the branch to the value set and nothing else.
C36_TrueAncestorReplaced ==
    toggle.toggled # "none" =>
       \A i \in 0..(Len(toggle.path) - 1) :
          SubTree(toggle.prevState, SubSeq(toggle.path, 1, i)) = SelTrue =>
             SubTree(toggle.selectionState, SubSeq(toggle.path, 1, i)) =
                IF toggle.newValue = SelUndef THEN SelUndef
                ELSE OnlyBranch(SubSeq(toggle.path, i + 1, Len(toggle.path)), toggle.newValue)

\* C36 witness: a descendant of a property that held true was set to
\* undefined, and the property is gone while another one is still selected
C36_Witness ==
    /\ toggle.toggled # "none"
    /\ toggle.newValue = SelUndef
    /\ \E i \in 1..(Len(toggle.path) - 1) :
          /\ SubTree(toggle.prevState, SubSeq(toggle.path, 1, i)) = SelTrue
          /\ SubTree(toggle.selectionState, SubSeq(toggle.path, 1, i)) = SelUndef
    /\ toggle.selectionState.t = "detail"

\* the $ref values of a masked schema, its definitions included
RECURSIVE OutRefs(_)
OutRefs(o) ==
    (IF "$ref" \in DOMAIN o THEN {o["$ref"]} ELSE {})
    \cup (IF "properties" \in DOMAIN o
          THEN UNION {OutRefs(o["properties"][k]) : k \in DOMAIN o["properties"]} ELSE {})
    \cup (IF "definitions" \in DOMAIN o
          THEN UNION {OutRefs(o["definitions"][k]) : k \in DOMAIN o["definitions"]} ELSE {})
    \cup (IF "items" \in DOMAIN o THEN OutRefs(o["items"]) ELSE {})
    \cup UNION {IF kw \in DOMAIN o THEN UNION {OutRefs(o[kw][i]) : i \in DOMAIN o[kw]} ELSE {} :
                  kw \in {"allOf", "anyOf", "oneOf"}}

\* "#/definitions/<K>"
IsDefinitionsRef(r) == Len(r) = 3 /\ r[1] = <<"#">> /\ r[2] = DEFINITIONS_PATH

\* C37: in the combined schema that the single-file version writes, every
\* $ref "#/definitions/<K>" has an entry K in the schema's definitions.
C37_NoDanglingDefinition ==
    (mode = "single" /\ phase = "done") =>
       \A q \in DOMAIN written :
          "x-mask-selection" \in DOMAIN written[q] =>
             \A r \in OutRefs(written[q]) :
                IsDefinitionsRef(r) =>
                   /\ "definitions" \in DOMAIN written[q]
                   /\ r[3] \in DOMAIN written[q]["definitions"]

\* C38: when the multi-file version has written its files, every document
\* that a $ref was emitted for, also one emitted on the cycle marker, has a
\* stored result with at least one key, and its masked file is written.
C38_EmittedRefHasFile ==
    (mode = "multi" /\ phase = "done") =>
       \A r \in refLog :
          r.emitted =>
             /\ r.target \in DOMAIN cache
             /\ IsNonEmptyContent(cache[r.target])
             /\ writeSchemaFile(getOutputPath(r.target), MASK_SUFFIX) \in DOMAIN written

\* C38 witness: the files are written, and a $ref was emitted for a document
\* that was still being processed
C38_Witness ==
    /\ mode = "multi" /\ phase = "done"
    /\ \E r \in refLog : r.emitted /\ r.got = "marker"

\* the path lies below the directory
InsideDir(q, dir) == Len(q) > Len(dir) /\ SubSeq(q, 1, Len(dir)) = dir

\* C39: every file a run has written, masked schema or sidecar, lies inside
\* the base output directory.
C39_WrittenInsideOutputDir ==
    \A q \in DOMAIN written : InsideDir(q, baseOutputDir)

\* C40: once a file has been opened in the panel that exists and nothing is
\* left in flight, the editor shows the payload of that file, the one in
\* currentFilePath.
C40_ShowsOpenedFile ==
    (EditorQuiescent /\ panel.reopened > 0) =>
       LET data == PayloadOf(OpenedFile(panel.filePath).payloadPath)
       IN  /\ webview.mainSchemaId = data.mainSchemaId
           /\ webview.mainSchemaBasePath = data.mainSchemaBasePath

====
